---- MODULE Spec2Model ----
(***************************************************************************)
(* The banish! macro (banish_derive/src/lib.rs): the AST it parses, the    *)
(* validation and code generation it performs at expansion time, and the   *)
(* state machine the generated code runs.                                  *)
(*                                                                         *)
(* A program is a Context: a sequence of states, each a name and a         *)
(* sequence of rules.  The host environment is one counter, ticks, and     *)
(* the host statements are `ticks += 1;`, `return;` and `return v;`.       *)
(* Conditions are `ticks < limit` and `false`.                             *)
(*                                                                         *)
(* Spec and FairSpec follow one program from the macro to the end of its   *)
(* run.  ParseSpec follows Rule::parse over a stream of token trees.       *)
(* ConcSpec runs the generated closure by itself and then twice with the   *)
(* steps of the two invocations interleaved.                               *)
(*                                                                         *)
(* SigilSpec follows the sigil interpreter (sigil/src/main.rs) over one    *)
(* program, from the first line parsed to the end of the invoke loop, and  *)
(* the parser of sigil/src/parser.rs over the same programs.               *)
(***************************************************************************)
EXTENDS Integers, Sequences, FiniteSets, TLC

\* Largest value of ticks a run is followed to.
MaxTicks == 5
\* Largest N of the conditions `ticks < N`.
MaxLimit == 3
\* Most token trees that follow `name ?` in a stream given to Rule::parse.
MaxTokens == 5

----------------------------------------------------------------------------
(* AST *)

None == << >>
Some(v) == << v >>
is_some(o) == o # None
is_none(o) == o = None
unwrap(o) == o[1]

\* enum BanishStmt { Rust(Stmt), StateTransition(Ident) }
Rust(s) == [kind |-> "Rust", stmt |-> s, target |-> "-"]
StateTransition(t) == [kind |-> "StateTransition", stmt |-> "-", target |-> t]

Inc == Rust("ticks += 1;")
ReturnUnit == Rust("return;")
ReturnValue == Rust("return v;")

\* struct Rule { name, condition, body, else_body }
Rule(n, c, b, e) == [name |-> n, condition |-> c, body |-> b, else_body |-> e]

\* struct State { name, rules }
State(n, rs) == [name |-> n, rules |-> rs]

----------------------------------------------------------------------------
(* The programs considered *)

StateNames == {"a", "b"}
\* "z" names no state of any program considered
Targets == {"a", "b", "z"}

CondLt == Some("ticks < limit")
CondFalse == Some("false")

\* Rules without their names: <<condition, body, else_body>>
RuleShapes ==
    {   << None, << Inc >>, None >>,
        << CondLt, << Inc >>, None >>,
        << CondFalse, << Inc >>, Some(<< Inc >>) >>,
        << CondLt, << Inc >>, Some(<< ReturnUnit, Inc >>) >>,
        << CondLt, << ReturnValue, Inc >>, None >>,
        << CondLt, << StateTransition("a"), Inc >>, Some(<< ReturnUnit >>) >>,
        << None, << ReturnUnit >>, None >>,
        \* an `!?` clause on a rule that has no condition, as it can be written
        << None, << Inc >>, Some(<< Inc >>) >> }
    \cup { << CondLt, << StateTransition(t), Inc >>, None >> : t \in Targets }
    \cup { << None, << Inc, StateTransition(t) >>, None >> : t \in StateNames }
    \cup { << CondFalse, << Inc >>, Some(<< StateTransition(t) >>) >> : t \in StateNames }

Named(n, sh) == Rule(n, sh[1], sh[2], sh[3])

\* Rule lists of up to two rules; the second rule is named as the first or not.
RuleLists ==
    { << >> }
    \cup { << Named("p", s) >> : s \in RuleShapes }
    \cup { << Named("p", s), Named(n, t) >> :
             s \in RuleShapes, t \in RuleShapes, n \in {"p", "q"} }

\* The rule lists a second state is given when the first takes any of RuleLists.
FewRuleLists ==
    {   << >>,
        << Named("p", << None, << Inc >>, None >>) >>,
        << Named("p", << CondLt, << Inc >>, None >>) >>,
        << Named("p", << None, << Inc >>, None >>),
           Named("q", << CondLt, << Inc >>, None >>) >>,
        << Named("p", << None, << Inc, StateTransition("a") >>, None >>) >>,
        << Named("p", << CondFalse, << Inc >>, Some(<< StateTransition("b") >>) >>) >>,
        << Named("p", << None, << ReturnUnit >>, None >>) >> }

\* Rules of the three-rule lists: a conditionless rule, a condition that turns
\* false with and without an else-body, a never-true condition with an
\* else-body, and a transition.
ThreeRuleShapes ==
    {   << None, << Inc >>, None >>,
        << CondLt, << Inc >>, None >>,
        << CondLt, << Inc >>, Some(<< ReturnUnit, Inc >>) >>,
        << CondFalse, << Inc >>, Some(<< Inc >>) >>,
        << CondLt, << StateTransition("a"), Inc >>, None >> }

\* Lists of three rules, named apart
ThreeRuleLists ==
    { << Named("p", s), Named("q", t), Named("r", u) >> :
        s \in ThreeRuleShapes, t \in ThreeRuleShapes, u \in ThreeRuleShapes }

\* The statements of the crate's documented example
AssignZero == Rust("ticks = 0;")
Println == Rust("println!(..);")
IncLoopCount == Rust("loop_count += 1;")

CondLt3 == Some("ticks < 3")
CondLt6 == Some("ticks < 6")
CondLt10 == Some("ticks < 10")
CondReset == Some("ticks == 10 && loop_count < 2")

\* The traffic light of the crate documentation
TrafficLight ==
    <<  State("red",
              << Rule("announce", None, << AssignZero, Println, IncLoopCount >>, None),
                 Rule("timer", CondLt3, << Inc >>, None) >>),
        State("green",
              << Rule("announce", None, << Println >>, None),
                 Rule("timer", CondLt6, << Inc >>, None) >>),
        State("yellow",
              << Rule("announce", None, << Println >>, None),
                 Rule("timer", CondLt10, << Inc >>, None),
                 Rule("reset", CondReset, << StateTransition("red") >>,
                      Some(<< ReturnUnit >>)) >>) >>

Programs ==
    { << >>, TrafficLight }
    \cup { << State("a", rs) >> : rs \in RuleLists \cup ThreeRuleLists }
    \cup { << State("a", r1), State(n, r2) >> :
             r1 \in RuleLists, r2 \in FewRuleLists, n \in StateNames }
    \cup { << State("a", r1), State(n, r2) >> :
             r1 \in FewRuleLists, r2 \in RuleLists, n \in StateNames }
    \cup { << State("a", r1), State("b", r2), State("c", r3) >> :
             r1 \in FewRuleLists, r2 \in FewRuleLists, r3 \in FewRuleLists }

----------------------------------------------------------------------------
(* Expansion time: parsing, validation and code generation *)

Ok == [err |-> "none", at |-> << >>]
Err(msg, where) == [err |-> msg, at |-> where]

\* Rule_parse with the check of the `!?` clause left out
Rule_parse_unchecked(rule) == Ok

\* The last check of Rule::parse: a rule written with an `!?` clause and no
\* condition is a syntax error, and no Rule is built.
Rule_parse(rule) ==
    IF is_none(rule.condition) /\ is_some(rule.else_body)
    THEN Err("'!?' clause without a condition", << rule.name >>)
    ELSE Ok

\* State::parse: the rules are parsed in order, `?` returns the first error
RECURSIVE State_parse(_, _)
State_parse(state, r) ==
    IF r > Len(state.rules) THEN Ok
    ELSE IF Rule_parse(state.rules[r]) # Ok THEN Rule_parse(state.rules[r])
         ELSE State_parse(state, r + 1)

\* Context::parse: the states are parsed in order, `?` returns the first error
RECURSIVE Context_parse(_, _)
Context_parse(input, s) ==
    IF s > Len(input) THEN Ok
    ELSE IF State_parse(input[s], 1) # Ok THEN State_parse(input[s], 1)
         ELSE Context_parse(input, s + 1)

\* parse_macro_input!(input as Context)
parse_macro_input(input) == Context_parse(input, 1)

\* HashSet::insert returns false when the name was already inserted
Seen(names, i) == \E j \in 1..(i - 1) : names[j] = names[i]

\* validate_rules with the rule-name check left out
validate_rules_skipped(state, r) == Ok

RECURSIVE validate_rules(_, _)
validate_rules(state, r) ==
    IF r > Len(state.rules) THEN Ok
    ELSE IF Seen([k \in 1..Len(state.rules) |-> state.rules[k].name], r)
         THEN Err("Duplicate rule", << state.name, state.rules[r].name >>)
         ELSE validate_rules(state, r + 1)

\* validate_states with the state-name check left out
RECURSIVE validate_states_unchecked(_, _)
validate_states_unchecked(input, s) ==
    IF s > Len(input) THEN Ok
    ELSE LET rules == validate_rules(input[s], 1)
         IN  IF rules # Ok THEN rules ELSE validate_states_unchecked(input, s + 1)

\* validate_states with one rule_names set for the whole program, declared
\* beside state_names instead of inside the loop over the states
RECURSIVE validate_states_one_set(_, _)
validate_states_one_set(input, s) ==
    IF s > Len(input) THEN Ok
    ELSE IF Seen([k \in 1..Len(input) |-> input[k].name], s)
         THEN Err("Duplicate state name", << input[s].name >>)
         ELSE LET earlier == UNION { { input[t].rules[k].name :
                                        k \in 1..Len(input[t].rules) } :
                                     t \in 1..(s - 1) }
                  rules == input[s].rules
                  bad == { r \in 1..Len(rules) :
                             \/ rules[r].name \in earlier
                             \/ \E q \in 1..(r - 1) : rules[q].name = rules[r].name }
              IN  IF bad # {}
                  THEN Err("Duplicate rule",
                           << input[s].name,
                              rules[CHOOSE r \in bad : \A q \in bad : r <= q].name >>)
                  ELSE validate_states_one_set(input, s + 1)

\* validate_states with the rules of a state checked before its name
RECURSIVE validate_states_rules_first(_, _)
validate_states_rules_first(input, s) ==
    IF s > Len(input) THEN Ok
    ELSE LET rules == validate_rules(input[s], 1)
         IN  IF rules # Ok THEN rules
             ELSE IF Seen([k \in 1..Len(input) |-> input[k].name], s)
                  THEN Err("Duplicate state name", << input[s].name >>)
                  ELSE validate_states_rules_first(input, s + 1)

RECURSIVE validate_states(_, _)
validate_states(input, s) ==
    IF s > Len(input) THEN Ok
    ELSE IF Seen([k \in 1..Len(input) |-> input[k].name], s)
         THEN Err("Duplicate state name", << input[s].name >>)
         ELSE LET rules == validate_rules(input[s], 1)
              IN  IF rules # Ok THEN rules ELSE validate_states(input, s + 1)

validate_state_and_rule_names(input) == validate_states(input, 1)

\* input.states.iter().position(|state| &state.name == transition), as an
\* Option of a 0-based index
position(input, transition) ==
    LET hits == { i \in 1..Len(input) : input[i].name = transition }
    IN  IF hits = {} THEN None
        ELSE Some((CHOOSE i \in hits : \A j \in hits : i <= j) - 1)

\* generate_stmt with unwrap_or(0) for the unwrap_or_else that panics
generate_stmt_unwrap_or(stmt, input) ==
    IF stmt.kind = "Rust" THEN [code |-> "rust", stmt |-> stmt.stmt, target |-> 0]
    ELSE IF is_none(position(input, stmt.target))
         THEN [code |-> "jump", stmt |-> "-", target |-> 0]
         ELSE [code |-> "jump", stmt |-> "-", target |-> unwrap(position(input, stmt.target))]

\* The code generated for one statement; a transition to a name that no
\* state has panics inside the macro.
generate_stmt(stmt, input) ==
    IF stmt.kind = "Rust" THEN [code |-> "rust", stmt |-> stmt.stmt, target |-> 0]
    ELSE IF is_none(position(input, stmt.target))
         THEN [code |-> "panic", stmt |-> stmt.target, target |-> 0]
         ELSE [code |-> "jump", stmt |-> "-", target |-> unwrap(position(input, stmt.target))]

\* Every statement of every body and else-body goes through generate_stmt.
Blocks(rule) ==
    IF is_some(rule.else_body) THEN << rule.body, unwrap(rule.else_body) >>
    ELSE << rule.body >>

PanicsInCodegen(input) ==
    \E s \in 1..Len(input) : \E r \in 1..Len(input[s].rules) :
      \E b \in 1..Len(Blocks(input[s].rules[r])) :
        \E k \in 1..Len(Blocks(input[s].rules[r])[b]) :
          generate_stmt(Blocks(input[s].rules[r])[b][k], input).code = "panic"

\* The statements in the order the quote! repetitions run generate_stmt on
\* them: state by state, rule by rule, the body before the else-body.
RECURSIVE rule_stmts(_, _)
rule_stmts(rules, r) ==
    IF r > Len(rules) THEN << >>
    ELSE rules[r].body
         \o (IF is_some(rules[r].else_body) THEN unwrap(rules[r].else_body) ELSE << >>)
         \o rule_stmts(rules, r + 1)

RECURSIVE state_blocks(_, _)
state_blocks(input, s) ==
    IF s > Len(input) THEN << >>
    ELSE rule_stmts(input[s].rules, 1) \o state_blocks(input, s + 1)

\* The panic that stops code generation: the first statement, in that order,
\* whose generate_stmt panics.
expand(input) ==
    LET stmts == state_blocks(input, 1)
        bad == { k \in 1..Len(stmts) : generate_stmt(stmts[k], input).code = "panic" }
    IN  IF bad = {} THEN Ok
        ELSE Err("Invalid state transition target",
                 << stmts[CHOOSE k \in bad : \A j \in bad : k <= j].target >>)

----------------------------------------------------------------------------
(* Run time: the generated closure *)

VARIABLES
    input,            \* the Context the macro was given
    limit,            \* the N of `ticks < N`
    ticks,            \* the host environment
    loop_count,       \* the host's second variable, of the documented example
    pc,               \* where control is
    current_state,    \* __current_state
    interaction,      \* __interaction
    first_iteration,  \* __first_iteration of the running match arm
    rule,             \* the rule control is at (1-based), 0 outside a pass
    block,            \* "body" or "else" while a block runs, "-" otherwise
    stmt,             \* the statement control is at in the block (1-based)
    result,           \* the closure's value, once it returned
    error,            \* the compile error or panic, once raised
    \* history, for stating the properties
    entry_by,         \* how the running state was entered: "start", "fall", "jump"
    entry_ticks,      \* ticks when the running state was entered
    visited,          \* the states entered so far
    revisit,          \* the running state had been entered before this entry
    jumped,           \* a transition statement was executed in this run
    pass,             \* passes begun since the running state was entered
    fired,            \* a body was begun in the current pass
    pass_ticks,       \* ticks when the current pass began
    body_runs,        \* per rule: bodies begun since the state was entered
    else_runs,        \* per rule: else-bodies begun since the state was entered
    last,             \* the last step of the generated code that ran
    pending,          \* the last transition, while no rule was evaluated since
    ran,              \* a condition was evaluated or a statement executed
    \* Rule::parse at work on a token stream
    tokens,           \* the token trees of the ParseStream
    cursor,           \* the next token tree of the stream (1-based)
    cond_tokens,      \* the cond_tokens of Rule::parse
    parsed,           \* the fields of the Rule parsed so far, and the Result
    step,             \* where Rule::parse is
    \* two invocations of the generated closure
    other,            \* the locals of the invocation that is not running
    alone,            \* the steps of the invocation that ran by itself
    phase,            \* "alone", then "together"
    \* the sigil interpreter
    build,            \* the parser at work: of "main.rs" or of "parser.rs"
    lines,            \* program.lines()
    li,               \* the line iterator (0-based)
    global_table,     \* name -> Object
    src_cache,        \* the evalexpr context: source name -> Value
    invoke_queue,     \* the targets pending
    runtime_chain,    \* what ran, in order
    ipc,              \* where the interpreter is
    sig_deps,         \* the sig_deps of the source being invoked (a clone)
    sig_dep,          \* the next of them (1-based)
    \* history, for stating the properties
    dispatched,       \* the lines whose keyword was looked up, in order
    queued,           \* every target pushed onto invoke_queue, in order
    dequeued,         \* every target popped off invoke_queue, in order
    evaluated         \* the dependents considered for the source last invoked

vars == << input, limit, ticks, loop_count, pc, current_state, interaction,
           first_iteration,
           rule, block, stmt, result, error,
           entry_by, entry_ticks, visited, revisit, jumped, pass, fired,
           pass_ticks, body_runs, else_runs, last, pending, ran,
           tokens, cursor, cond_tokens, parsed, step, other, alone, phase,
           build, lines, li, global_table, src_cache, invoke_queue,
           runtime_chain, ipc, sig_deps, sig_dep, dispatched, queued, dequeued,
           evaluated >>

engine == << current_state, interaction, first_iteration, rule, block, stmt >>
entry == << entry_by, entry_ticks, visited, revisit, jumped >>
counts == << pass, fired, pass_ticks, body_runs, else_runs >>

\* The history counters stop counting here; no run reaches it.
CountCap == MaxTicks + 3
Count(n) == IF n < CountCap THEN n + 1 ELSE n

NoRuns == [r \in 1..3 |-> 0]

parsing == << tokens, cursor, cond_tokens, parsed, step >>
invocations == << other, alone, phase >>
interpreter == << build, lines, li, global_table, src_cache, invoke_queue,
                 runtime_chain, ipc, sig_deps, sig_dep, dispatched, queued,
                 dequeued, evaluated >>

\* No token stream is being parsed
NoParsing ==
    /\ tokens = << >>
    /\ cursor = 1
    /\ cond_tokens = << >>
    /\ parsed = None
    /\ step = "-"

\* No sigil program is being interpreted
NoInterpreter ==
    /\ build = "-"
    /\ lines = << >>
    /\ li = 0
    /\ global_table = << >>
    /\ src_cache = << >>
    /\ invoke_queue = << >>
    /\ runtime_chain = << >>
    /\ ipc = "-"
    /\ sig_deps = << >>
    /\ sig_dep = 0
    /\ dispatched = << >>
    /\ queued = << >>
    /\ dequeued = << >>
    /\ evaluated = << >>

\* One invocation only
OneInvocation ==
    /\ other = None
    /\ alone = {}
    /\ phase = "-"

\* Before the macro is expanded
Unexpanded ==
    /\ pc = "macro"
    /\ current_state = 0
    /\ interaction = FALSE
    /\ first_iteration = FALSE
    /\ rule = 0
    /\ block = "-"
    /\ stmt = 0
    /\ result = None
    /\ error = Ok
    /\ entry_by = "start"
    /\ entry_ticks = ticks
    /\ visited = {}
    /\ revisit = FALSE
    /\ jumped = FALSE
    /\ pass = 0
    /\ fired = FALSE
    /\ pass_ticks = ticks
    /\ body_runs = NoRuns
    /\ else_runs = NoRuns
    /\ last = "-"
    /\ pending = None
    /\ ran = FALSE

Init ==
    /\ input \in Programs
    /\ limit \in 1..MaxLimit
    /\ ticks \in 0..1
    /\ loop_count = 0
    /\ Unexpanded
    /\ NoParsing
    /\ OneInvocation
    /\ NoInterpreter

\* The state whose match arm is running, and its rules
Running == input[current_state + 1]
Rules == Running.rules
ThisRule == Rules[rule]
ThisBlock == IF block = "body" THEN ThisRule.body ELSE unwrap(ThisRule.else_body)

\* Holds on the environment as it was when the pass began
HoldsAtPassStart(condition) ==
    IF condition = "ticks < limit" THEN pass_ticks < limit ELSE FALSE

\* Holds with `<=` for `<`
HoldsOffByOne(condition) ==
    CASE condition = "ticks < limit" -> ticks <= limit
      [] condition = "ticks < 3" -> ticks <= 3
      [] condition = "ticks < 6" -> ticks <= 6
      [] condition = "ticks < 10" -> ticks <= 10
      [] condition = "ticks == 10 && loop_count < 2" -> ticks = 10 /\ loop_count <= 2
      [] OTHER -> FALSE

\* The host's evaluation of a condition
Holds(condition) ==
    CASE condition = "ticks < limit" -> ticks < limit
      [] condition = "ticks < 3" -> ticks < 3
      [] condition = "ticks < 6" -> ticks < 6
      [] condition = "ticks < 10" -> ticks < 10
      [] condition = "ticks == 10 && loop_count < 2" -> ticks = 10 /\ loop_count < 2
      [] OTHER -> FALSE

\* banish(): parsing, then validation, then code generation; each may stop
\* the build.
banish ==
    /\ pc = "macro"
    /\ \/ /\ parse_macro_input(input) # Ok
          /\ error' = parse_macro_input(input)
          /\ pc' = "compile_error"
       \/ /\ parse_macro_input(input) = Ok
          /\ validate_state_and_rule_names(input) # Ok
          /\ error' = validate_state_and_rule_names(input)
          /\ pc' = "compile_error"
       \/ /\ parse_macro_input(input) = Ok
          /\ validate_state_and_rule_names(input) = Ok
          /\ PanicsInCodegen(input)
          /\ error' = expand(input)
          /\ pc' = "compile_error"
       \/ /\ parse_macro_input(input) = Ok
          /\ validate_state_and_rule_names(input) = Ok
          /\ ~PanicsInCodegen(input)
          /\ error' = error
          /\ pc' = "expanded"
    /\ UNCHANGED << input, limit, ticks, loop_count, engine, result, entry, counts,
                    last, pending, ran >>

\* (move || { let mut __current_state = 0; let mut __interaction = false; ...
Closure ==
    /\ pc = "expanded"
    /\ current_state' = 0
    /\ interaction' = FALSE
    /\ pc' = "match"
    /\ UNCHANGED << input, limit, ticks, loop_count, first_iteration, rule, block, stmt,
                    result, error, entry, counts, last, pending, ran >>

\* FreshFirstIteration for a flag declared once, outside the match: a state
\* entered again finds it as the last pass left it
StaleFirstIteration == first_iteration \/ visited = {}

\* let mut __first_iteration = true; in every match arm
FreshFirstIteration == TRUE

\* match __current_state { #index => { let mut __first_iteration = true; loop {
MatchArm ==
    /\ pc = "match"
    /\ current_state < Len(input)
    /\ first_iteration' = FreshFirstIteration
    /\ pc' = "loop"
    /\ entry_by' = IF last = "jump" THEN "jump"
                   ELSE IF last = "break" THEN "fall" ELSE "start"
    /\ entry_ticks' = ticks
    /\ visited' = visited \cup {current_state}
    /\ revisit' = (current_state \in visited)
    /\ pass' = 0
    /\ fired' = FALSE
    /\ body_runs' = NoRuns
    /\ else_runs' = NoRuns
    /\ last' = "enter"
    /\ UNCHANGED << input, limit, ticks, loop_count, current_state, interaction, rule, block,
                    stmt, result, error, jumped, pass_ticks, pending, ran >>

\* MatchDefault that starts over at the first state instead of panicking
MatchDefaultWraps ==
    /\ pc = "match"
    /\ current_state >= Len(input)
    /\ current_state' = 0
    /\ last' = "wrap"
    /\ UNCHANGED << input, limit, ticks, loop_count, pc, interaction, first_iteration, rule,
                    block, stmt, result, error, entry, counts, pending, ran >>

\* _ => { panic!("Error: No return in final state"); }
MatchDefault ==
    /\ pc = "match"
    /\ current_state >= Len(input)
    /\ error' = Err("No return in final state", << >>)
    /\ pc' = "panic"
    /\ last' = "panic"
    /\ UNCHANGED << input, limit, ticks, loop_count, engine, result, entry, counts,
                    pending, ran >>

\* The place after rule r of the pass: the next rule, or the end of the pass.
AfterRule(r) ==
    IF r < Len(Rules) THEN /\ rule' = r + 1
                           /\ pc' = "rule"
    ELSE /\ rule' = 0
         /\ pc' = "pass_end"

\* ResetInteraction with the reset left out
KeepInteraction == interaction

\* __interaction = false; at the top of the loop
ResetInteraction == FALSE

LoopTop ==
    /\ pc = "loop"
    /\ interaction' = ResetInteraction
    /\ block' = "-"
    /\ stmt' = 0
    /\ AfterRule(0)
    /\ pass' = Count(pass)
    /\ fired' = FALSE
    /\ pass_ticks' = ticks
    /\ last' = "loop"
    /\ UNCHANGED << input, limit, ticks, loop_count, current_state, first_iteration,
                    result, error, entry, body_runs, else_runs, pending, ran >>

\* Guard with the conditionless rule's `if __first_iteration` left out
GuardEveryPass(r) ==
    IF is_some(r.condition) THEN Holds(unwrap(r.condition)) ELSE TRUE

\* if #condition { ... }  /  if __first_iteration { ... }
Guard(r) ==
    IF is_some(r.condition) THEN Holds(unwrap(r.condition)) ELSE first_iteration

\* Selects with the else-branch guarded like a conditionless body
SelectsElseOnce(r) ==
    IF Guard(r) THEN "body"
    ELSE IF is_some(r.condition) /\ is_some(r.else_body) /\ first_iteration THEN "else"
    ELSE "-"

\* What the `if` of a rule selects: "body", "else" or "-" (nothing)
Selects(r) ==
    IF Guard(r) THEN "body"
    ELSE IF is_some(r.condition) /\ is_some(r.else_body) THEN "else"
    ELSE "-"

\* SetsInteraction with the assignment in the else-branch as well
SetsInteractionInElse(selected) == selected \in {"body", "else"}

\* SetsInteraction without the assignment in the conditionless rule's branch
SetsInteractionIfConditioned(selected) ==
    selected = "body" /\ is_some(ThisRule.condition)

\* __interaction = true; is the first statement of the `if` branch only
SetsInteraction(selected) == selected = "body"

BlockOf(r, selected) ==
    IF selected = "body" THEN r.body
    ELSE IF selected = "else" THEN unwrap(r.else_body)
    ELSE << >>

Bump(runs, r) == [runs EXCEPT ![r] = Count(@)]

EvalRule ==
    /\ pc = "rule"
    /\ LET sel == Selects(ThisRule)
       IN  /\ interaction' = (interaction \/ SetsInteraction(sel))
           /\ fired' = (fired \/ sel = "body")
           /\ body_runs' = IF sel = "body" THEN Bump(body_runs, rule) ELSE body_runs
           /\ else_runs' = IF sel = "else" THEN Bump(else_runs, rule) ELSE else_runs
           /\ IF BlockOf(ThisRule, sel) # << >>
              THEN /\ block' = sel
                   /\ stmt' = 1
                   /\ pc' = "stmt"
                   /\ rule' = rule
              ELSE /\ block' = "-"
                   /\ stmt' = 0
                   /\ AfterRule(rule)
    /\ last' = "eval"
    /\ pending' = None
    /\ ran' = TRUE
    /\ UNCHANGED << input, limit, ticks, loop_count, current_state, first_iteration,
                    result, error, entry, pass, pass_ticks >>

\* The place after statement stmt of the running block
AfterStmt ==
    IF stmt < Len(ThisBlock) THEN /\ stmt' = stmt + 1
                                  /\ UNCHANGED << pc, rule, block >>
    ELSE /\ stmt' = 0
         /\ block' = "-"
         /\ AfterRule(rule)

\* ticks += 1;
\* The documented example bounds ticks by its own conditions; the run of any
\* other program is followed to MaxTicks.
HostInc ==
    /\ ticks < MaxTicks \/ input = TrafficLight
    /\ ticks' = ticks + 1
    /\ AfterStmt
    /\ last' = "inc"
    /\ UNCHANGED << loop_count, current_state, result, pending >>

\* ticks = 0;
HostAssignZero ==
    /\ ticks' = 0
    /\ AfterStmt
    /\ last' = "host"
    /\ UNCHANGED << loop_count, current_state, result, pending >>

\* loop_count += 1;
HostIncLoopCount ==
    /\ loop_count' = loop_count + 1
    /\ AfterStmt
    /\ last' = "host"
    /\ UNCHANGED << ticks, current_state, result, pending >>

\* println!(..); changes nothing of the environment
HostPrintln ==
    /\ AfterStmt
    /\ last' = "host"
    /\ UNCHANGED << ticks, loop_count, current_state, result, pending >>

\* HostReturn that leaves only the running block
HostReturnFromBlock(s) ==
    /\ result' = Some(IF s = "return v;" THEN "v" ELSE "()")
    /\ stmt' = 0
    /\ block' = "-"
    /\ AfterRule(rule)
    /\ last' = "return"
    /\ UNCHANGED << ticks, loop_count, current_state, pending >>

\* return; / return v; leaves the closure
HostReturn(s) ==
    /\ result' = Some(IF s = "return v;" THEN "v" ELSE "()")
    /\ pc' = "returned"
    /\ last' = "return"
    /\ UNCHANGED << ticks, loop_count, current_state, rule, block, stmt, pending >>

\* Jump without the `continue 'banish_main`: the block goes on
JumpNoContinue(target) ==
    /\ current_state' = target
    /\ AfterStmt
    /\ last' = "jump"
    /\ pending' = Some([name |-> ThisBlock[stmt].target, target |-> target,
                        state |-> current_state, rule |-> rule,
                        block |-> block, stmt |-> stmt])
    /\ UNCHANGED << ticks, loop_count, result >>

\* __current_state = #target; continue 'banish_main;
Jump(target) ==
    /\ current_state' = target
    /\ pc' = "match"
    /\ rule' = 0
    /\ block' = "-"
    /\ stmt' = 0
    /\ last' = "jump"
    /\ pending' = Some([name |-> ThisBlock[stmt].target, target |-> target,
                        state |-> current_state, rule |-> rule,
                        block |-> block, stmt |-> stmt])
    /\ UNCHANGED << ticks, loop_count, result >>

ExecStmt ==
    /\ pc = "stmt"
    /\ LET code == generate_stmt(ThisBlock[stmt], input)
       IN  \/ /\ code.code = "rust"
              /\ code.stmt = "ticks += 1;"
              /\ HostInc
           \/ /\ code.code = "rust"
              /\ code.stmt = "ticks = 0;"
              /\ HostAssignZero
           \/ /\ code.code = "rust"
              /\ code.stmt = "loop_count += 1;"
              /\ HostIncLoopCount
           \/ /\ code.code = "rust"
              /\ code.stmt = "println!(..);"
              /\ HostPrintln
           \/ /\ code.code = "rust"
              /\ code.stmt \in {"return;", "return v;"}
              /\ HostReturn(code.stmt)
           \/ /\ code.code = "jump"
              /\ Jump(code.target)
    /\ jumped' = (jumped \/ ThisBlock[stmt].kind = "StateTransition")
    /\ ran' = TRUE
    /\ UNCHANGED << input, limit, interaction, first_iteration, error,
                    entry_by, entry_ticks, visited, revisit, counts >>

\* AfterLoop with the increment left out
AfterLoopSameState(s) == s

\* __current_state += 1; after the loop
AfterLoop(s) == s + 1

\* if __first_iteration { __first_iteration = false; }
\* if !__interaction { break; }   and, after the loop, __current_state += 1;
PassEnd ==
    /\ pc = "pass_end"
    /\ first_iteration' = FALSE
    /\ IF ~interaction
       THEN /\ current_state' = AfterLoop(current_state)
            /\ pc' = "match"
            /\ last' = "break"
       ELSE /\ current_state' = current_state
            /\ pc' = "loop"
            /\ last' = "again"
    /\ UNCHANGED << input, limit, ticks, loop_count, interaction, rule, block, stmt, result,
                    error, entry, counts, pending, ran >>

Next ==
    \/ banish /\ UNCHANGED << parsing, invocations, interpreter >>
    \/ Closure /\ UNCHANGED << parsing, invocations, interpreter >>
    \/ MatchArm /\ UNCHANGED << parsing, invocations, interpreter >>
    \/ MatchDefault /\ UNCHANGED << parsing, invocations, interpreter >>
    \/ LoopTop /\ UNCHANGED << parsing, invocations, interpreter >>
    \/ EvalRule /\ UNCHANGED << parsing, invocations, interpreter >>
    \/ ExecStmt /\ UNCHANGED << parsing, invocations, interpreter >>
    \/ PassEnd /\ UNCHANGED << parsing, invocations, interpreter >>

Spec == Init /\ [][Next]_vars

\* The generated code is sequential: a step that can be taken is taken.
FairSpec == Spec /\ WF_vars(Next)

TypeOK ==
    /\ pc \in {"macro", "compile_error", "expanded", "match", "loop", "rule",
               "stmt", "pass_end", "returned", "panic"}
    /\ input # TrafficLight => ticks \in 0..MaxTicks
    /\ loop_count \in 0..2
    /\ current_state \in 0..Len(input)
    /\ pc \in {"loop", "rule", "stmt", "pass_end"} => current_state < Len(input)
    /\ pc \in {"rule", "stmt"} => rule \in 1..Len(Rules)
    /\ pc = "stmt" => block \in {"body", "else"} /\ stmt \in 1..Len(ThisBlock)
    /\ pass < CountCap
    /\ \A r \in 1..3 : body_runs[r] < CountCap /\ else_runs[r] < CountCap

----------------------------------------------------------------------------
(* Rule::parse on a stream of token trees *)

\* The token trees told apart: an identifier, the punctuation `<`, `?`, `!`
\* and `@`, a brace-delimited group and a parenthesised group.  A group is
\* one token tree, whatever it holds.
TokenTrees == {"id", "<", "?", "!", "@", "{}", "()"}

StreamsOf(n) == UNION { [1..k -> TokenTrees] : k \in 0..n }

\* The streams parsed: `name ?` and then anything, and some that do not
\* begin so
Streams ==
    { << "id", "?" >> \o rest : rest \in StreamsOf(MaxTokens) }
    \cup { << >>, << "?" >>, << "id" >>, << "id", "id" >>, << "id", "{}" >>,
           << "{}", "?" >> }

\* The token sequences syn parses as one whole expression, of those that can
\* be written with these token trees: a path, a parenthesised expression, a
\* call, a macro call or a struct literal, with `?` after it or `!` before
\* it, and a comparison of two of these.
Atoms ==
    { << "id" >>, << "()" >>, << "id", "()" >>, << "id", "!", "()" >>,
      << "id", "{}" >> }
Postfixed == Atoms \cup { a \o << "?" >> : a \in Atoms }
Unaries == Postfixed \cup { << "!" >> \o e : e \in Postfixed }
Exprs == Unaries \cup { l \o << "<" >> \o r : l \in Unaries, r \in Unaries }

\* syn::parse2(cond_tokens): an Expr made of all the tokens, or an error
parse2(ts) == IF ts \in Exprs THEN Some(ts) ELSE None

NoRule == [name |-> 0, condition |-> None, body |-> 0, else_body |-> None,
           err |-> "none"]

ParseInit ==
    /\ input = << >>
    /\ limit = 1
    /\ ticks = 0
    /\ loop_count = 0
    /\ Unexpanded
    /\ OneInvocation
    /\ NoInterpreter
    /\ tokens \in Streams
    /\ cursor = 1
    /\ cond_tokens = << >>
    /\ parsed = NoRule
    /\ step = "name"

\* input.is_empty() and input.peek(..)
is_empty == cursor > Len(tokens)
peek(t) == ~is_empty /\ tokens[cursor] = t

\* return Err(..), or the `?` after a failed parse
Fail(msg) ==
    /\ parsed' = [parsed EXCEPT !.err = msg]
    /\ step' = "Err"
    /\ UNCHANGED << tokens, cursor, cond_tokens >>

\* let name: Ident = input.parse()?;
ParseName ==
    /\ step = "name"
    /\ IF peek("id")
       THEN /\ parsed' = [parsed EXCEPT !.name = cursor]
            /\ cursor' = cursor + 1
            /\ step' = "question"
            /\ UNCHANGED << tokens, cond_tokens >>
       ELSE Fail("expected identifier")

\* input.parse::<Token![?]>()?;
ParseQuestion ==
    /\ step = "question"
    /\ IF peek("?")
       THEN /\ cursor' = cursor + 1
            /\ step' = "condition"
            /\ UNCHANGED << tokens, cond_tokens, parsed >>
       ELSE Fail("expected ?")

\* AtBody for a parser that reads the expression from the stream itself: a
\* brace group that follows a path is read as the fields of a struct literal
AtBodyUnlessStruct ==
    /\ peek("{}")
    /\ ~(cond_tokens # << >> /\ cond_tokens[Len(cond_tokens)] = "id")

\* input.peek(syn::token::Brace)
AtBody == peek("{}")

\* if input.peek(syn::token::Brace) { None } else { .. }
PeekCondition ==
    /\ step = "condition"
    /\ IF AtBody
       THEN /\ parsed' = [parsed EXCEPT !.condition = None]
            /\ step' = "body"
       ELSE /\ parsed' = parsed
            /\ step' = "cond_tokens"
    /\ UNCHANGED << tokens, cursor, cond_tokens >>

\* while !input.peek(syn::token::Brace) { if input.is_empty() { return Err(..) }
UnexpectedEnd ==
    /\ step = "cond_tokens"
    /\ ~AtBody
    /\ is_empty
    /\ Fail("Unexpected end of input, expected rule body '{'")

\* cond_tokens.extend(std::iter::once(input.parse::<TokenTree>()?));
PullToken ==
    /\ step = "cond_tokens"
    /\ ~AtBody
    /\ ~is_empty
    /\ cond_tokens' = Append(cond_tokens, tokens[cursor])
    /\ cursor' = cursor + 1
    /\ UNCHANGED << tokens, parsed, step >>

\* Some(syn::parse2(cond_tokens)?)
ParseCondition ==
    /\ step = "cond_tokens"
    /\ AtBody
    /\ IF is_some(parse2(cond_tokens))
       THEN /\ parsed' = [parsed EXCEPT !.condition = parse2(cond_tokens)]
            /\ step' = "body"
            /\ UNCHANGED << tokens, cursor, cond_tokens >>
       ELSE Fail("expected expression")

\* braced!(content in input); the group is taken whole, as the rule's block
Braced(field, then) ==
    IF peek("{}")
    THEN /\ parsed' = [parsed EXCEPT ![field] =
                          IF field = "body" THEN cursor ELSE Some(cursor)]
         /\ cursor' = cursor + 1
         /\ step' = then
         /\ UNCHANGED << tokens, cond_tokens >>
    ELSE Fail("expected {")

\* let body = parse_rule_block(&content)?;
ParseBody ==
    /\ step = "body"
    /\ Braced("body", "else")

\* if input.peek(Token![!]) { input.parse::<Token![!]>()?; .. } else { None }
ParseElse ==
    /\ step = "else"
    /\ IF peek("!")
       THEN /\ cursor' = cursor + 1
            /\ step' = "else_question"
       ELSE /\ cursor' = cursor
            /\ step' = "check"
    /\ UNCHANGED << tokens, cond_tokens, parsed >>

\* input.parse::<Token![?]>()?;  after the `!`
ParseElseQuestion ==
    /\ step = "else_question"
    /\ IF peek("?")
       THEN /\ cursor' = cursor + 1
            /\ step' = "else_body"
            /\ UNCHANGED << tokens, cond_tokens, parsed >>
       ELSE Fail("expected ?")

\* braced!(else_content in input); Some(parse_rule_block(&else_content)?)
ParseElseBody ==
    /\ step = "else_body"
    /\ Braced("else_body", "check")

\* if condition.is_none() && else_body.is_some() { return Err(..) }
\* Ok(Rule { name, condition, body, else_body })
CheckElse ==
    /\ step = "check"
    /\ IF is_none(parsed.condition) /\ is_some(parsed.else_body)
       THEN Fail("'!?' clause without a condition")
       ELSE /\ step' = "Ok"
            /\ UNCHANGED << tokens, cursor, cond_tokens, parsed >>

generated == << input, limit, ticks, loop_count, pc, engine, result, error, entry, counts,
                last, pending, ran >>

ParseNext ==
    \/ ParseName /\ UNCHANGED << generated, invocations, interpreter >>
    \/ ParseQuestion /\ UNCHANGED << generated, invocations, interpreter >>
    \/ PeekCondition /\ UNCHANGED << generated, invocations, interpreter >>
    \/ UnexpectedEnd /\ UNCHANGED << generated, invocations, interpreter >>
    \/ PullToken /\ UNCHANGED << generated, invocations, interpreter >>
    \/ ParseCondition /\ UNCHANGED << generated, invocations, interpreter >>
    \/ ParseBody /\ UNCHANGED << generated, invocations, interpreter >>
    \/ ParseElse /\ UNCHANGED << generated, invocations, interpreter >>
    \/ ParseElseQuestion /\ UNCHANGED << generated, invocations, interpreter >>
    \/ ParseElseBody /\ UNCHANGED << generated, invocations, interpreter >>
    \/ CheckElse /\ UNCHANGED << generated, invocations, interpreter >>

\* Rule::parse from its first token to its Result
ParseSpec == ParseInit /\ [][ParseNext]_vars
----------------------------------------------------------------------------
(* Two invocations of the generated closure, their steps interleaved *)

\* What one invocation of the closure owns: the environment it captured by
\* `move`, the locals the closure declares, and its history
Locals ==
    [ ticks |-> ticks,
      pc |-> pc,
      current_state |-> current_state,
      interaction |-> interaction,
      first_iteration |-> first_iteration,
      rule |-> rule,
      block |-> block,
      stmt |-> stmt,
      result |-> result,
      error |-> error,
      entry_by |-> entry_by,
      entry_ticks |-> entry_ticks,
      visited |-> visited,
      revisit |-> revisit,
      jumped |-> jumped,
      pass |-> pass,
      fired |-> fired,
      pass_ticks |-> pass_ticks,
      body_runs |-> body_runs,
      else_runs |-> else_runs,
      last |-> last,
      pending |-> pending,
      ran |-> ran ]

\* An invocation about to begin, its environment holding t
Start(t) ==
    [ ticks |-> t, pc |-> "expanded", current_state |-> 0, interaction |-> FALSE,
      first_iteration |-> FALSE, rule |-> 0, block |-> "-", stmt |-> 0,
      result |-> None, error |-> Ok, entry_by |-> "start", entry_ticks |-> t,
      visited |-> {}, revisit |-> FALSE, jumped |-> FALSE, pass |-> 0,
      fired |-> FALSE, pass_ticks |-> t, body_runs |-> NoRuns,
      else_runs |-> NoRuns, last |-> "-", pending |-> None, ran |-> FALSE ]

\* Resume with __interaction a static that the invocations share: it is
\* found as the other invocation left it
ResumeSharedInteraction(l) ==
    /\ ticks' = l.ticks
    /\ pc' = l.pc
    /\ current_state' = l.current_state
    /\ interaction' = interaction
    /\ first_iteration' = l.first_iteration
    /\ rule' = l.rule
    /\ block' = l.block
    /\ stmt' = l.stmt
    /\ result' = l.result
    /\ error' = l.error
    /\ entry_by' = l.entry_by
    /\ entry_ticks' = l.entry_ticks
    /\ visited' = l.visited
    /\ revisit' = l.revisit
    /\ jumped' = l.jumped
    /\ pass' = l.pass
    /\ fired' = l.fired
    /\ pass_ticks' = l.pass_ticks
    /\ body_runs' = l.body_runs
    /\ else_runs' = l.else_runs
    /\ last' = l.last
    /\ pending' = l.pending
    /\ ran' = l.ran

\* The thread of an invocation is scheduled: it goes on with its own locals
Resume(l) ==
    /\ ticks' = l.ticks
    /\ pc' = l.pc
    /\ current_state' = l.current_state
    /\ interaction' = l.interaction
    /\ first_iteration' = l.first_iteration
    /\ rule' = l.rule
    /\ block' = l.block
    /\ stmt' = l.stmt
    /\ result' = l.result
    /\ error' = l.error
    /\ entry_by' = l.entry_by
    /\ entry_ticks' = l.entry_ticks
    /\ visited' = l.visited
    /\ revisit' = l.revisit
    /\ jumped' = l.jumped
    /\ pass' = l.pass
    /\ fired' = l.fired
    /\ pass_ticks' = l.pass_ticks
    /\ body_runs' = l.body_runs
    /\ else_runs' = l.else_runs
    /\ last' = l.last
    /\ pending' = l.pending
    /\ ran' = l.ran

\* The programs invoked twice
ConcPrograms ==
    {   << >>,
        << State("a", << Named("p", << CondLt, << Inc >>, None >>) >>) >>,
        << State("a", << Named("p", << CondLt, << ReturnValue, Inc >>, None >>) >>) >>,
        << State("a", << Named("p", << None, << Inc >>, None >>),
                         Named("p", << CondLt, << Inc >>, None >>) >>) >>,
        << State("a", << Named("p", << None, << Inc >>, None >>),
                         Named("q", << CondLt, << Inc >>, None >>) >>),
           State("b", << Named("p", << None, << ReturnUnit >>, None >>) >>) >>,
        << State("a", << Named("p", << None, << Inc >>, None >>),
                         Named("q", << CondLt, << Inc >>, Some(<< ReturnUnit, Inc >>) >>) >>),
           State("b", << Named("p", << CondLt, << Inc >>, None >>) >>) >>,
        << State("a", << Named("p", << CondFalse, << Inc >>,
                                    Some(<< StateTransition("b") >>) >>) >>),
           State("b", << Named("p", << None, << Inc >>, None >>),
                         Named("q", << CondLt, << Inc >>, None >>) >>) >>,
        << State("a", << Named("p", << None, << Inc, StateTransition("b") >>, None >>),
                         Named("q", << None, << ReturnUnit >>, None >>) >>),
           State("b", << Named("p", << CondLt, << Inc >>, None >>) >>) >>,
        << State("a", << Named("p", << None, << Inc >>, None >>) >>),
           State("b", << Named("p", << CondLt, << Inc >>, None >>) >>),
           State("c", << Named("p", << None, << ReturnUnit >>, None >>) >>) >> }

\* The macro is expanded once; the first invocation then runs by itself
ConcInit ==
    /\ input \in ConcPrograms
    /\ limit \in 1..MaxLimit
    /\ ticks = 0
    /\ loop_count = 0
    /\ Unexpanded
    /\ NoParsing
    /\ NoInterpreter
    /\ other = None
    /\ alone = {}
    /\ phase = "first"

Ended == pc \in {"returned", "panic"}

\* A step of the invocation that is running; the steps of an invocation
\* that runs by itself are kept
Recorded ==
    /\ alone' = IF phase \in {"first", "second"} /\ pc # "macro"
                THEN alone \cup { << Locals, Locals' >> }
                ELSE alone
    /\ UNCHANGED << parsing, other, phase, interpreter >>

\* The first invocation has ended: a second, on an environment of its own
\* that holds another value, runs by itself
Second ==
    /\ phase = "first"
    /\ Ended
    /\ phase' = "second"
    /\ Resume(Start(1))
    /\ UNCHANGED << input, limit, loop_count, parsing, interpreter, other, alone >>

\* Then the two are invoked again, this time at once
Together ==
    /\ phase = "second"
    /\ Ended
    /\ phase' = "together"
    /\ Resume(Start(0))
    /\ other' = Start(1)
    /\ UNCHANGED << input, limit, loop_count, parsing, interpreter, alone >>

\* The scheduler takes the running invocation off and puts the other on
Switch ==
    /\ phase = "together"
    /\ Resume(other)
    /\ other' = Locals
    /\ UNCHANGED << input, limit, loop_count, parsing, interpreter, alone, phase >>

ConcNext ==
    \/ banish /\ Recorded
    \/ Closure /\ Recorded
    \/ MatchArm /\ Recorded
    \/ MatchDefault /\ Recorded
    \/ LoopTop /\ Recorded
    \/ EvalRule /\ Recorded
    \/ ExecStmt /\ Recorded
    \/ PassEnd /\ Recorded
    \/ Second
    \/ Together
    \/ Switch

ConcSpec == ConcInit /\ [][ConcNext]_vars

----------------------------------------------------------------------------
(* The sigil interpreter: its data *)

\* Most entries of runtime_chain a run is followed to
MaxChain == 6

\* The names the programs give to sources and sigils, and the built-ins
SourceNames == {"x"}
BuiltIns == {"Whisper", "Pulse"}
Names == SourceNames \cup {"A", "B"} \cup BuiltIns

Range(s) == { s[i] : i \in DOMAIN s }

\* enum Object { Source, Sigil, BuiltInSigil }, and what get() gives for a
\* name the table does not hold.  The value of a source is kept in src_cache;
\* its text, which only Whisper prints, is left out.
NoObject == [type |-> "-"]
Source(name, deps) == [type |-> "Source", name |-> name, sig_deps |-> deps]
Sigil(name, cond_expr, body, src_deps) ==
    [type |-> "Sigil", name |-> name, cond_expr |-> cond_expr, body |-> body,
     src_deps |-> src_deps]
BuiltInSigil(name, in_sigil) ==
    [type |-> "BuiltInSigil", name |-> name, in_sigil |-> in_sigil]

\* HashMap::get on global_table
get(table, k) == IF k \in DOMAIN table THEN table[k] ELSE NoObject

\* Context::get_value on src_cache
NoValue == "-"
get_value(cache, k) == IF k \in DOMAIN cache THEN cache[k] ELSE NoValue

\* Interpreter::new(): the two built-ins in an otherwise empty table
Interpreter_new ==
    [n \in Names |-> IF n \in BuiltIns THEN BuiltInSigil(n, None) ELSE NoObject]

\* A line of the program: whether it starts with whitespace, and its words
Line(indent, text) == [indent |-> indent, text |-> text]
Blank == Line(FALSE, << >>)

\* The string literals of the programs, and the values they denote
Literals == {"\"on\"", "\"off\""}
trim_matches(val) ==
    IF val = "\"on\"" THEN "on" ELSE IF val = "\"off\"" THEN "off" ELSE val

\* Conditions as they are written after `?`
On == << "x", "=", "\"on\"" >>
Off == << "x", "=", "\"off\"" >>
Ghost == << "x", "=", "ghost" >>
SourceLast == << "\"on\"", "=", "x" >>
NoCondition == << >>

\* Body statements
SetOn == << "x", ":", "\"on\"" >>
SetOff == << "x", ":", "\"off\"" >>
QueuePulse == << "invoke", "Pulse" >>
QueuePulseB == << "invoke", "Pulse", "B" >>
QueueX == << "invoke", "x" >>
QueueWhisper == << "invoke", "Whisper" >>

\* `src x : v`, `invoke t, ..`, a line of an unknown keyword
SrcLine(name, val) == Line(FALSE, << "src", name, ":", val >>)
InvokeLine(targets) == Line(FALSE, << "invoke" >> \o targets)
UnknownLine == Line(FALSE, << "print", "x" >>)

\* `sigil name ? condition:` followed by its indented body
Def(name, condition, body) ==
    << Line(FALSE, << "sigil", name >>
                   \o (IF condition = << >> THEN << >> ELSE << "?" >> \o condition)
                   \o << ":" >>) >>
    \o [k \in 1..Len(body) |-> Line(TRUE, body[k])]

\* The first sigil of a program
FirstDefs ==
    { Def("A", c, b) : c \in {On, Off, Ghost, SourceLast}, b \in {<< SetOn >>, << SetOff >>} }
    \cup { Def("A", On, b) :
             b \in {<< QueuePulse >>, << SetOff, QueuePulse >>, << QueuePulseB >>} }

\* The second
SecondDefs ==
    { Def("B", c, b) : c \in {On, NoCondition}, b \in {<< >>, << SetOn >>, << QueueX >>, << QueueWhisper >>} }
    \cup { Def(n, On, << SetOn >>) : n \in BuiltIns }

LastLines ==
    { InvokeLine(t) : t \in {<< "x" >>, << "A" >>, << "A", "B" >>, << "Pulse", "x" >>,
                             << "ghost", "x" >>} }
    \cup { UnknownLine }

\* With or without an empty line
Gaps == {<< >>, << Blank >>}

\* The programs: a source, two sigils that may depend on it, an invoke
SigilPrograms ==
    { << SrcLine("x", v) >> \o d1 \o g1 \o d2 \o g2 \o << l >> :
        v \in Literals, d1 \in FirstDefs, g1 \in Gaps, d2 \in SecondDefs,
        g2 \in Gaps, l \in LastLines }

----------------------------------------------------------------------------
(* The sigil interpreter: parsing *)

history == << dispatched, queued, dequeued, evaluated >>

SigilInit ==
    /\ input = << >>
    /\ limit = 1
    /\ ticks = 0
    /\ loop_count = 0
    /\ Unexpanded
    /\ NoParsing
    /\ OneInvocation
    /\ build \in {"main.rs", "parser.rs"}
    /\ lines \in SigilPrograms
    /\ li = 0
    /\ global_table = Interpreter_new
    /\ src_cache = [n \in SourceNames |-> NoValue]
    /\ invoke_queue = << >>
    /\ runtime_chain = << >>
    /\ ipc = "parse"
    /\ sig_deps = << >>
    /\ sig_dep = 0
    /\ dispatched = << >>
    /\ queued = << >>
    /\ dequeued = << >>
    /\ evaluated = << >>

\* What a handler works on, and what it leaves: the table, the context, the
\* queue, the targets it pushed, and whether it returned Err or panicked
Now ==
    [table |-> global_table, cache |-> src_cache, queue |-> invoke_queue,
     pushed |-> << >>, failed |-> FALSE, panicked |-> FALSE]

\* An invalid invoke: main.rs prints and goes on, parser.rs returns Err
Complain(st) == IF build = "main.rs" THEN st ELSE [st EXCEPT !.failed = TRUE]

\* queue_invokes (main.rs) / construct_queue (parser.rs): every target in turn
RECURSIVE queue_invokes(_, _, _)
queue_invokes(targets, sigil, st) ==
    IF targets = << >> \/ st.failed THEN st
    ELSE LET cleaned_target == Head(targets)
             node == get(st.table, cleaned_target)
             push == [st EXCEPT !.queue = Append(@, node.name),
                                !.pushed = Append(@, node.name)]
         IN  queue_invokes(Tail(targets), sigil,
                IF node.type \in {"Sigil", "Source"} THEN push
                ELSE IF node.type = "BuiltInSigil"
                THEN IF is_some(sigil)
                     THEN [push EXCEPT !.table[cleaned_target] =
                                           BuiltInSigil(node.name, sigil)]
                     ELSE Complain(st)
                ELSE Complain(st))

\* The loop of parse is at a line
AtLine == ipc = "parse" /\ li < Len(lines)
ThisLine == lines[li + 1]

\* is_line: the line is not empty
is_line(l) == l.text # << >>

\* split_once(" "): what stands before the first space; nothing before the
\* whitespace an indented line starts with
keyword(l) == IF l.indent THEN "" ELSE Head(l.text)
Keywords == {"src", "sigil", "invoke"}

\* if is_line.is_empty() || is_line.starts_with("#") { li += 1; continue; }
ParseSkip ==
    /\ AtLine
    /\ ~is_line(ThisLine)
    /\ li' = li + 1
    /\ UNCHANGED << global_table, src_cache, invoke_queue, runtime_chain, ipc,
                    sig_deps, sig_dep, history >>

\* construct_src, and the li += 1 that ends the iteration
ParseSrc ==
    /\ AtLine
    /\ is_line(ThisLine)
    /\ keyword(ThisLine) = "src"
    /\ LET line == Tail(ThisLine.text)
           name == line[1]
           val == line[3]
       IN  /\ global_table' = [global_table EXCEPT ![name] = Source(name, << >>)]
           /\ src_cache' = [src_cache EXCEPT ![name] = trim_matches(val)]
    /\ dispatched' = Append(dispatched, li)
    /\ li' = li + 1
    /\ UNCHANGED << invoke_queue, runtime_chain, ipc, sig_deps, sig_dep,
                    queued, dequeued, evaluated >>

\* .replace(" = ", " == ").replace(" and ", " && ").replace(" or ", " || ")
replace(expr) ==
    [i \in DOMAIN expr |->
        IF expr[i] = "=" THEN "=="
        ELSE IF expr[i] = "and" THEN "&&"
        ELSE IF expr[i] = "or" THEN "||"
        ELSE expr[i]]

\* line.split(&[':', '?']): the name, and what stands between `?` and `:`
header_name(line) == line[1]
header_cond(line) ==
    IF line[2] = "?" THEN SubSeq(line, 3, Len(line) - 1) ELSE << >>

\* The sources among the words of the condition become the sigil's src_deps,
\* and the sigil becomes one of their sig_deps
RECURSIVE register(_, _, _, _)
register(expr, name, table, src_deps) ==
    IF expr = << >> THEN [table |-> table, src_deps |-> src_deps]
    ELSE LET token == Head(expr)
             node == get(table, token)
         IN  IF token \notin Range(src_deps) /\ node.type = "Source"
             THEN register(Tail(expr), name,
                           [table EXCEPT ![token].sig_deps = Append(@, name)],
                           Append(src_deps, node.name))
             ELSE register(Tail(expr), name, table, src_deps)

\* while i < lines_len && lines[i].starts_with(char::is_whitespace) { i += 1 }
RECURSIVE body_end(_)
body_end(i) == IF i < Len(lines) /\ lines[i + 1].indent THEN body_end(i + 1) ELSE i

\* parser.rs returns Err for a sigil named as a built-in; main.rs prints
Overrides(name) == name \in BuiltIns /\ build = "parser.rs"

\* construct_sigil leaves li at the first line after the body; the loop of
\* parse then adds one
AfterBody(i) == i + 1

\* construct_sigil, and the li += 1 that ends the iteration
ParseSigil ==
    /\ AtLine
    /\ is_line(ThisLine)
    /\ keyword(ThisLine) = "sigil"
    /\ LET line == Tail(ThisLine.text)
           name == header_name(line)
           cond_expr == replace(header_cond(line))
           deps == register(cond_expr, name, global_table, << >>)
           i == body_end(li + 1)
           body == [k \in 1..(i - (li + 1)) |-> lines[li + 1 + k].text]
       IN  /\ ~Overrides(name)
           /\ global_table' = [deps.table EXCEPT ![name] =
                                  Sigil(name, cond_expr, body, deps.src_deps)]
           /\ li' = AfterBody(i)
    /\ dispatched' = Append(dispatched, li)
    /\ UNCHANGED << src_cache, invoke_queue, runtime_chain, ipc, sig_deps,
                    sig_dep, queued, dequeued, evaluated >>

\* parser.rs: return Err("Cannot override built-in ..")
ParseSigilRefused ==
    /\ AtLine
    /\ is_line(ThisLine)
    /\ keyword(ThisLine) = "sigil"
    /\ Overrides(header_name(Tail(ThisLine.text)))
    /\ ipc' = "syntax_error"
    /\ dispatched' = Append(dispatched, li)
    /\ UNCHANGED << li, global_table, src_cache, invoke_queue, runtime_chain,
                    sig_deps, sig_dep, queued, dequeued, evaluated >>

\* queue_invokes / construct_queue for a line of the program, outside a sigil
ParseInvoke ==
    /\ AtLine
    /\ is_line(ThisLine)
    /\ keyword(ThisLine) = "invoke"
    /\ LET st == queue_invokes(Tail(ThisLine.text), None, Now)
       IN  /\ global_table' = st.table
           /\ invoke_queue' = st.queue
           /\ queued' = queued \o st.pushed
           /\ IF st.failed THEN ipc' = "syntax_error" /\ li' = li
              ELSE ipc' = ipc /\ li' = li + 1
    /\ dispatched' = Append(dispatched, li)
    /\ UNCHANGED << src_cache, runtime_chain, sig_deps, sig_dep, dequeued,
                    evaluated >>

\* panic!("{} is an unknown keyword.") in main.rs; Err in parser.rs
ParseUnknown ==
    /\ AtLine
    /\ is_line(ThisLine)
    /\ keyword(ThisLine) \notin Keywords
    /\ ipc' = IF build = "main.rs" THEN "panic" ELSE "syntax_error"
    /\ dispatched' = Append(dispatched, li)
    /\ UNCHANGED << li, global_table, src_cache, invoke_queue, runtime_chain,
                    sig_deps, sig_dep, queued, dequeued, evaluated >>

\* The loop of parse ends: main goes on to invoke; parser.rs returns Ok(())
ParseEnd ==
    /\ ipc = "parse"
    /\ li >= Len(lines)
    /\ ipc' = IF build = "main.rs" THEN "invoke" ELSE "parsed"
    /\ UNCHANGED << li, global_table, src_cache, invoke_queue, runtime_chain,
                    sig_deps, sig_dep, history >>

----------------------------------------------------------------------------
(* The sigil interpreter: the invoke loop of main.rs *)

\* An operand of an expression: a string literal, or an identifier that the
\* context binds or does not
Operand(t, cache) ==
    IF t \in Literals THEN Some(trim_matches(t))
    ELSE IF get_value(cache, t) # NoValue THEN Some(get_value(cache, t))
    ELSE None

\* eval_boolean_with_context: `a == b` is a boolean when both operands have a
\* value; the empty expression is none
eval_boolean_with_context(expr, cache) ==
    IF Len(expr) = 3 /\ expr[2] = "=="
    THEN IF is_none(Operand(expr[1], cache)) \/ is_none(Operand(expr[3], cache))
         THEN "err"
         ELSE IF Operand(expr[1], cache) = Operand(expr[3], cache) THEN "true"
         ELSE "false"
    ELSE "err"

\* The loop of eval_expr reads expr_split[e + 1] at a token e (0-based) that
\* is a source when expr_len >= 2 and e + 2 != expr_len: at the last token
\* that is past the end
ReadsPastEnd(expr, cache) ==
    \E e \in 0..(Len(expr) - 1) :
        /\ get_value(cache, expr[e + 1]) # NoValue
        /\ ~(Len(expr) < 2)
        /\ e + 2 # Len(expr)
        /\ e + 1 >= Len(expr)

\* eval_expr: "true", "false", "err" for Err(e), "panic".  In the conditions
\* considered no source is followed by `&&`, so "!=0" is appended nowhere.
eval_expr(cond_expr, cache) ==
    IF ReadsPastEnd(cond_expr, cache) THEN "panic"
    ELSE eval_boolean_with_context(cond_expr, cache)

\* invoke_sigil: the lines of the body in turn
RECURSIVE invoke_sigil(_, _, _)
invoke_sigil(body, sigil, st) ==
    IF body = << >> \/ st.panicked THEN st
    ELSE LET line_split == Head(body)
             key == line_split[1]
         IN  invoke_sigil(Tail(body), sigil,
                IF key = "invoke"
                THEN queue_invokes(Tail(line_split), Some(sigil), st)
                ELSE IF line_split[2] = ":"
                THEN IF get(st.table, key).type = "Source"
                     THEN IF is_some(Operand(line_split[3], st.cache))
                          THEN [st EXCEPT !.cache[key] =
                                             unwrap(Operand(line_split[3], st.cache))]
                          ELSE st
                     ELSE [st EXCEPT !.panicked = TRUE]
                ELSE [st EXCEPT !.panicked = TRUE])

\* while let Some(target) = inter.invoke_queue.pop_front()
Pending ==
    /\ ipc = "invoke"
    /\ invoke_queue # << >>
    /\ Len(runtime_chain) < MaxChain
target == Head(invoke_queue)
node == get(global_table, target)

\* runtime_chain.push(target.clone()), with the pop_front before it
Popped ==
    /\ runtime_chain' = Append(runtime_chain, target)
    /\ dequeued' = Append(dequeued, target)

\* What a step leaves of a handler's work
Left(st) ==
    /\ global_table' = st.table
    /\ src_cache' = st.cache
    /\ invoke_queue' = st.queue
    /\ queued' = queued \o st.pushed

\* Object::Source(src): the for loop over src.sig_deps begins
InvokeSource ==
    /\ Pending
    /\ node.type = "Source"
    /\ Popped
    /\ invoke_queue' = Tail(invoke_queue)
    /\ sig_deps' = node.sig_deps
    /\ sig_dep' = 1
    /\ evaluated' = << >>
    /\ ipc' = "deps"
    /\ UNCHANGED << li, global_table, src_cache, dispatched, queued >>

\* One iteration of the for loop: the dependent is looked up, its condition
\* evaluated on src_cache as it is now, its body run when that is true
InvokeDependent ==
    /\ ipc = "deps"
    /\ sig_dep <= Len(sig_deps)
    /\ LET sigil == get(global_table, sig_deps[sig_dep])
           outcome == IF sigil.type = "Sigil"
                      THEN eval_expr(sigil.cond_expr, src_cache) ELSE "-"
           st == invoke_sigil(sigil.body, sigil.name, Now)
       IN  \/ /\ outcome = "true"
              /\ runtime_chain' = Append(runtime_chain, sigil.name)
              /\ Left(st)
              /\ ipc' = IF st.panicked THEN "panic" ELSE ipc
           \/ /\ outcome \in {"false", "err", "-"}
              /\ UNCHANGED << global_table, src_cache, invoke_queue,
                              runtime_chain, queued, ipc >>
           \/ /\ outcome = "panic"
              /\ ipc' = "panic"
              /\ UNCHANGED << global_table, src_cache, invoke_queue,
                              runtime_chain, queued >>
    /\ sig_dep' = sig_dep + 1
    /\ evaluated' = Append(evaluated, sig_deps[sig_dep])
    /\ UNCHANGED << li, sig_deps, dispatched, dequeued >>

\* The for loop is through
InvokeDependentsEnd ==
    /\ ipc = "deps"
    /\ sig_dep > Len(sig_deps)
    /\ ipc' = "invoke"
    /\ UNCHANGED << li, global_table, src_cache, invoke_queue, runtime_chain,
                    sig_deps, sig_dep, history >>

\* Object::Sigil(sigil) => invoke_sigil(inter, &sigil): no condition is asked
InvokeSigil ==
    /\ Pending
    /\ node.type = "Sigil"
    /\ Popped
    /\ LET st == invoke_sigil(node.body, node.name,
                              [Now EXCEPT !.queue = Tail(invoke_queue)])
       IN  /\ Left(st)
           /\ ipc' = IF st.panicked THEN "panic" ELSE ipc
    /\ UNCHANGED << li, sig_deps, sig_dep, dispatched, evaluated >>

\* BuiltInSigil::whisper prints its arguments
InvokeWhisper ==
    /\ Pending
    /\ node.type = "BuiltInSigil"
    /\ node.name = "Whisper"
    /\ Popped
    /\ invoke_queue' = Tail(invoke_queue)
    /\ UNCHANGED << li, global_table, src_cache, ipc, sig_deps, sig_dep,
                    dispatched, queued, evaluated >>

\* inter.invoke_queue[0] = name.to_string(): the front of the queue is
\* written over; with no front the index panics
pulse_owner(queue, name) ==
    IF queue = << >> THEN [queue |-> queue, panicked |-> TRUE]
    ELSE [queue |-> [queue EXCEPT ![1] = name], panicked |-> FALSE]

\* BuiltInSigil::pulse, run on the clone of the built-in that invoke took
InvokePulse ==
    /\ Pending
    /\ node.type = "BuiltInSigil"
    /\ node.name = "Pulse"
    /\ Popped
    /\ LET sigil == IF is_some(node.in_sigil)
                    THEN get(global_table, unwrap(node.in_sigil)) ELSE NoObject
           outcome == IF sigil.type = "Sigil"
                      THEN eval_expr(sigil.cond_expr, src_cache) ELSE "-"
           owner == pulse_owner(Tail(invoke_queue), unwrap(node.in_sigil))
       IN  \/ /\ outcome = "true"
              /\ invoke_queue' = owner.queue
              /\ ipc' = IF owner.panicked THEN "panic" ELSE ipc
           \/ /\ outcome \in {"false", "err", "-"}
              /\ invoke_queue' = Tail(invoke_queue)
              /\ ipc' = ipc
           \/ /\ outcome = "panic"
              /\ invoke_queue' = Tail(invoke_queue)
              /\ ipc' = "panic"
    /\ UNCHANGED << li, global_table, src_cache, sig_deps, sig_dep, dispatched,
                    queued, evaluated >>

\* pop_front gives None: invoke returns, and main after it
InvokeEnd ==
    /\ ipc = "invoke"
    /\ invoke_queue = << >>
    /\ ipc' = "exit"
    /\ UNCHANGED << li, global_table, src_cache, invoke_queue, runtime_chain,
                    sig_deps, sig_dep, history >>

SigilNext ==
    \/ ParseSkip /\ UNCHANGED << generated, parsing, invocations, build, lines >>
    \/ ParseSrc /\ UNCHANGED << generated, parsing, invocations, build, lines >>
    \/ ParseSigil /\ UNCHANGED << generated, parsing, invocations, build, lines >>
    \/ ParseSigilRefused /\ UNCHANGED << generated, parsing, invocations, build, lines >>
    \/ ParseInvoke /\ UNCHANGED << generated, parsing, invocations, build, lines >>
    \/ ParseUnknown /\ UNCHANGED << generated, parsing, invocations, build, lines >>
    \/ ParseEnd /\ UNCHANGED << generated, parsing, invocations, build, lines >>
    \/ InvokeSource /\ UNCHANGED << generated, parsing, invocations, build, lines >>
    \/ InvokeDependent /\ UNCHANGED << generated, parsing, invocations, build, lines >>
    \/ InvokeDependentsEnd /\ UNCHANGED << generated, parsing, invocations, build, lines >>
    \/ InvokeSigil /\ UNCHANGED << generated, parsing, invocations, build, lines >>
    \/ InvokeWhisper /\ UNCHANGED << generated, parsing, invocations, build, lines >>
    \/ InvokePulse /\ UNCHANGED << generated, parsing, invocations, build, lines >>
    \/ InvokeEnd /\ UNCHANGED << generated, parsing, invocations, build, lines >>

SigilSpec == SigilInit /\ [][SigilNext]_vars

----------------------------------------------------------------------------
(* Properties *)

InState == pc \in {"loop", "rule", "stmt", "pass_end"}
Conditionless(r) == is_none(r.condition)

\* Rule r was reached in the current pass
Reached(r) ==
    \/ pc = "pass_end"
    \/ pc \in {"rule", "stmt"} /\ rule > r
    \/ pc = "stmt" /\ rule = r

\* Rule r was reached in the first pass of the current entry
ReachedInFirstPass(r) ==
    \/ pass > 1
    \/ pass = 1 /\ (pc = "loop" \/ Reached(r))

\* The rules of the state the last step left, once control is back at the match
LeftRules ==
    IF last = "break" THEN input[current_state].rules
    ELSE IF last = "jump" THEN input[unwrap(pending).state + 1].rules
    ELSE Rules

C2_FixedPointExit ==
    [][ /\ pc = "pass_end" =>
             IF fired THEN pc' = "loop" /\ current_state' = current_state
             ELSE pc' = "match" /\ current_state' = current_state + 1
        /\ last' = "break" => pc = "pass_end" /\ ~fired ]_vars

\* A state left at a quiescent pass that followed passes in which rules fired
C2_Witness ==
    /\ pc = "match"
    /\ last = "break"
    /\ pass >= 2
    /\ \E r \in 1..2 : body_runs[r] >= 1

\* The value a return statement carries
Carried(s) == IF s.stmt = "return v;" THEN "v" ELSE "()"

\* C3: a return statement ends the run where it stands: no step follows it,
\* and the result is the value it carries, or the unit value if it carries
\* none; before a return there is no result.
C3_ReturnHalts ==
    /\ [][last # "return"]_vars
    /\ [](last = "return" =>
            /\ pc = "returned"
            /\ ThisBlock[stmt].kind = "Rust"
            /\ ThisBlock[stmt].stmt \in {"return;", "return v;"}
            /\ result = Some(Carried(ThisBlock[stmt])))
    /\ [](pc # "returned" => result = None)

\* A return in an else-body, in a later pass, with statements and rules after it
C3_Witness ==
    /\ pc = "returned"
    /\ block = "else"
    /\ pass >= 2
    /\ stmt < Len(ThisBlock)
    /\ current_state + 1 < Len(input)

\* The first state from index s on that has a rule; Len(input) if none has
RECURSIVE FirstWithRules(_)
FirstWithRules(s) ==
    IF s >= Len(input) THEN Len(input)
    ELSE IF input[s + 1].rules # << >> THEN s
    ELSE FirstWithRules(s + 1)

\* C4, as stated: the next rule evaluated after a transition is the first rule
\* of the transition's target state.
C4_NextRuleIsTargetsFirst ==
    (pending # None /\ pc = "rule") =>
        current_state = unwrap(pending).target /\ rule = 1

\* C4, amended: after a transition no statement runs and no rule is evaluated
\* before the target state is entered afresh; the next rule evaluated is the
\* first rule, on a first pass, of the target state, or, when the target has
\* no rules, of the first state after it that has any.
C4_TransitionShortCircuit ==
    pending # None =>
        /\ pc \in {"match", "loop", "pass_end", "rule", "panic"}
        /\ pc = "match" /\ last = "jump" => current_state = unwrap(pending).target
        /\ pc = "rule" =>
            /\ current_state = FirstWithRules(unwrap(pending).target)
            /\ rule = 1
            /\ pass = 1
            /\ first_iteration

\* The target's first rule is about to be evaluated after a transition that
\* left a statement of its block and a rule of its state unrun
C4_Witness ==
    /\ pending # None
    /\ pc = "rule"
    /\ current_state = unwrap(pending).target
    /\ LET from == input[unwrap(pending).state + 1].rules
       IN  /\ unwrap(pending).rule < Len(from)
           /\ unwrap(pending).block = "body"
           /\ unwrap(pending).stmt < Len(from[unwrap(pending).rule].body)

PassesReached(r) == IF Reached(r) \/ pc = "loop" THEN pass ELSE pass - 1

\* C6: a block that starts is the body when the rule's condition holds and
\* the else-body when it does not; a conditioned rule with an else-body has
\* begun one of the two in every pass that reached it, and the else-body of a
\* condition that is never true has begun in every such pass.
C6_ElseEveryPass ==
    /\ (pc = "stmt" /\ stmt = 1 /\ last = "eval" /\ ~Conditionless(ThisRule)) =>
          (block = "body") = Holds(unwrap(ThisRule.condition))
    /\ InState =>
         \A r \in 1..Len(Rules) :
            (~Conditionless(Rules[r]) /\ is_some(Rules[r].else_body)) =>
                /\ body_runs[r] + else_runs[r] = PassesReached(r)
                /\ Rules[r].condition = CondFalse => else_runs[r] = PassesReached(r)

\* The else-body of a never-true condition beginning for the third time in
\* one entry
C6_Witness ==
    /\ pc = "stmt"
    /\ block = "else"
    /\ ThisRule.condition = CondFalse
    /\ else_runs[rule] = 3
    /\ pass = 3

\* A state whose only rule is `timer ? ticks < limit { ticks += 1; }`
TimerOnly(rs) ==
    /\ Len(rs) = 1
    /\ rs[1].condition = CondLt
    /\ rs[1].body = << Inc >>
    /\ is_none(rs[1].else_body)

\* C7: a state whose only rule is the timer, entered with ticks = k <= N, is
\* left by falling through to the next declared state, with the body run
\* exactly N - k times and ticks = N; it is left in no other way.
C7_TimerRuns ==
    /\ (pc = "match" /\ last = "break" /\ TimerOnly(LeftRules)
          /\ entry_ticks <= limit) =>
            /\ body_runs[1] = limit - entry_ticks
            /\ ticks = limit
    /\ (InState /\ TimerOnly(Rules) /\ entry_ticks <= limit) =>
            /\ body_runs[1] = ticks - entry_ticks + (IF pc = "stmt" THEN 1 ELSE 0)
            /\ ticks <= limit
            /\ pc = "pass_end" /\ ~interaction => ticks = limit
    /\ (pc \in {"match", "returned"} /\ last \in {"jump", "return"}) =>
            ~TimerOnly(LeftRules)

\* The spec's instance: entered with ticks = 0, N = 3, left for the next state
\* after three runs of the body
C7_Witness ==
    /\ pc = "match"
    /\ last = "break"
    /\ TimerOnly(LeftRules)
    /\ current_state < Len(input)
    /\ entry_ticks = 0
    /\ limit = 3
    /\ body_runs[1] = 3
    /\ ticks = 3

\* The statements of block b that are `ticks += 1;`
Incs(b) == Cardinality({ k \in 1..Len(b) : b[k] = Inc })

\* Block b holds a transition or a return
Exits(b) == \E k \in 1..Len(b) : b[k] # Inc

ElseOf(r) == IF is_some(r.else_body) THEN unwrap(r.else_body) ELSE << >>

\* The passes left to a state at the top of its loop once every condition is
\* false: the first pass with a conditionless rule is followed by one more.
PassesLeft ==
    IF first_iteration /\ \E r \in 1..Len(Rules) : Conditionless(Rules[r])
    THEN 2 ELSE 1

\* The `ticks += 1;` that rules r and later of the running state still run
\* once every condition is false
RECURSIVE IncsToCome(_)
IncsToCome(r) ==
    IF r > Len(Rules) THEN 0
    ELSE (IF Conditionless(Rules[r])
          THEN (IF first_iteration THEN Incs(Rules[r].body) ELSE 0)
          ELSE PassesLeft * Incs(ElseOf(Rules[r])))
         + IncsToCome(r + 1)

\* At the top of the loop of a state all of whose conditions are false, none
\* of the blocks that will run holds a transition or a return, and the run
\* is followed to the end of those blocks.
Quiescent ==
    /\ pc = "loop"
    /\ \A r \in 1..Len(Rules) :
         IF Conditionless(Rules[r])
         THEN first_iteration => ~Exits(Rules[r].body)
         ELSE /\ ~Holds(unwrap(Rules[r].condition))
              /\ ~Exits(ElseOf(Rules[r]))
    /\ ticks + IncsToCome(1) <= MaxTicks

\* C8: from the top of the loop of a state all of whose conditions are false,
\* with no transition or return to come, the loop is eventually left by its
\* break, and the break advances control to the next state.
C8_FixedPointTerminates ==
    /\ Quiescent ~> (pc = "match" /\ last = "break")
    /\ [][last' = "break" =>
            pc' = "match" /\ current_state' = current_state + 1]_vars

\* A state left at its fixed point after several passes, the last of which ran
\* an else-body
C8_Witness ==
    /\ pc = "match"
    /\ last = "break"
    /\ pass >= 3
    /\ \E r, q \in 1..2 : else_runs[r] = pass /\ body_runs[q] >= 1

\* Two rules of one state share a name
HasDuplicateRule(ctx) ==
    \E s \in 1..Len(ctx) : \E i, j \in 1..Len(ctx[s].rules) :
        i < j /\ ctx[s].rules[i].name = ctx[s].rules[j].name

\* C9: a program with a duplicate rule name in a state is rejected by the
\* static checks: it never gets past the macro, no condition is evaluated and
\* no statement runs.
C9_DuplicateRuleNeverRuns ==
    HasDuplicateRule(input) =>
        /\ pc \in {"macro", "compile_error"}
        /\ pc = "compile_error" =>
              error.err \in {"Duplicate rule", "Duplicate state name",
                             "'!?' clause without a condition"}
        /\ ~ran
        /\ ticks = entry_ticks
        /\ result = None

\* A program rejected for a duplicate rule whose condition is never true
C9_Witness ==
    /\ pc = "compile_error"
    /\ error.err = "Duplicate rule"
    /\ Len(input) >= 1
    /\ Len(input[1].rules) = 2
    /\ input[1].rules[2].name = input[1].rules[1].name
    /\ input[1].rules[2].condition = CondFalse

\* Some transition of the program names no state
UnresolvedTarget(ctx) ==
    \E s \in 1..Len(ctx) : \E r \in 1..Len(ctx[s].rules) :
      \E b \in {ctx[s].rules[r].body, ElseOf(ctx[s].rules[r])} :
        \E k \in 1..Len(b) :
            /\ b[k].kind = "StateTransition"
            /\ \A t \in 1..Len(ctx) : ctx[t].name # b[k].target

\* C10: a program with a transition to a name no state has never gets past
\* the macro, whatever the rule holding it; and after every transition
\* __current_state is the index of a state that has the name the transition
\* gives.
C10_TargetsResolved ==
    /\ UnresolvedTarget(input) =>
          /\ pc \in {"macro", "compile_error"}
          /\ ~ran
    /\ (pc = "match" /\ last = "jump") =>
          /\ current_state \in 0..(Len(input) - 1)
          /\ input[current_state + 1].name = unwrap(pending).name

\* A program rejected for the target of a rule that could never fire
C10_Witness ==
    /\ pc = "compile_error"
    /\ error.err = "Invalid state transition target"
    /\ Len(input) = 1
    /\ Len(input[1].rules) = 1
    /\ input[1].rules[1].condition = CondLt
    /\ input[1].rules[1].body[1] = StateTransition("z")
    /\ ticks >= limit

\* Two states share a name
HasDuplicateState(ctx) ==
    \E i, j \in 1..Len(ctx) : i < j /\ ctx[i].name = ctx[j].name

\* Some rule is written with an `!?` clause and no condition
HasLoneElse(ctx) ==
    \E s \in 1..Len(ctx) : \E r \in 1..Len(ctx[s].rules) :
        is_none(ctx[s].rules[r].condition) /\ is_some(ctx[s].rules[r].else_body)

\* The first state, in declaration order, whose name an earlier state has
SecondOccurrence(ctx) ==
    CHOOSE j \in 1..Len(ctx) :
        /\ \E i \in 1..(j - 1) : ctx[i].name = ctx[j].name
        /\ \A k \in 1..(j - 1) : \A i \in 1..(k - 1) : ctx[i].name # ctx[k].name

\* Some state declared before state j has two rules of one name
DuplicateRuleBefore(ctx, j) ==
    \E s \in 1..(j - 1) : \E i, k \in 1..Len(ctx[s].rules) :
        i < k /\ ctx[s].rules[i].name = ctx[s].rules[k].name

\* The names the transitions of a program give
BlockTargets(b) ==
    { b[k].target : k \in { k \in 1..Len(b) : b[k].kind = "StateTransition" } }
TransitionTargets(ctx) ==
    UNION { UNION { BlockTargets(ctx[s].rules[r].body)
                    \cup BlockTargets(ElseOf(ctx[s].rules[r])) :
                    r \in 1..Len(ctx[s].rules) } :
            s \in 1..Len(ctx) }

\* The 0-based indices of the states that have the name
Denoted(ctx, name) == { i - 1 : i \in { i \in 1..Len(ctx) : ctx[i].name = name } }

\* C11, as stated: a program with two states of one name is rejected with the
\* duplicate-state-name error, before anything runs (of the programs that
\* parse, which are the ones validation is given).
C11_DuplicateStateError ==
    (HasDuplicateState(input) /\ ~HasLoneElse(input)) =>
        /\ pc \in {"macro", "compile_error"}
        /\ ~ran
        /\ pc = "compile_error" => error.err = "Duplicate state name"
\* C11, amended: a program with two states of one name is rejected before
\* anything runs; the error is the duplicate-state-name error for the first
\* repeated name unless an earlier check fails first, which is then the one
\* reported (an `!?` clause without a condition anywhere in the program, or
\* a duplicate rule name in a state declared before the repeated one).  Hence
\* in every program that executes, state names are pairwise distinct, each
\* transition target names exactly one state index, and a transition moves
\* control to that index.
C11_DuplicateStateRejected ==
    /\ HasDuplicateState(input) =>
          /\ pc \in {"macro", "compile_error"}
          /\ ~ran
          /\ pc = "compile_error" =>
                error = IF HasLoneElse(input)
                        THEN Err("'!?' clause without a condition", error.at)
                        ELSE IF DuplicateRuleBefore(input, SecondOccurrence(input))
                        THEN Err("Duplicate rule", error.at)
                        ELSE Err("Duplicate state name",
                                 << input[SecondOccurrence(input)].name >>)
    /\ pc \notin {"macro", "compile_error"} =>
          /\ \A i, j \in 1..Len(input) : i # j => input[i].name # input[j].name
          /\ \A t \in TransitionTargets(input) :
                Cardinality(Denoted(input, t)) = 1
    /\ (pc = "match" /\ last = "jump") =>
          Denoted(input, unwrap(pending).name) = {current_state}

\* A program rejected for its second state "a", to which a rule transitions
C11_Witness ==
    /\ pc = "compile_error"
    /\ error = Err("Duplicate state name", << "a" >>)
    /\ Len(input) = 2
    /\ "a" \in TransitionTargets(input)
    /\ ~HasDuplicateRule(input)
\* C12, as stated: validation, which every program that parses reaches,
\* fails with the duplicate-rule error exactly when two rules of one state
\* share a name.
C12_DuplicateRuleIff ==
    (pc # "macro" /\ ~HasLoneElse(input)) =>
        ((pc = "compile_error" /\ error.err = "Duplicate rule")
            <=> HasDuplicateRule(input))

\* The first state, in declaration order, with two rules of one name
FirstDuplicateRuleState(ctx) ==
    CHOOSE s \in 1..Len(ctx) :
        /\ DuplicateRuleBefore(ctx, s + 1)
        /\ ~DuplicateRuleBefore(ctx, s)

\* The first rule of the state whose name an earlier rule of the state has
FirstDuplicateRule(state) ==
    CHOOSE r \in 1..Len(state.rules) :
        /\ \E q \in 1..(r - 1) : state.rules[q].name = state.rules[r].name
        /\ \A k \in 1..(r - 1) : \A q \in 1..(k - 1) :
              state.rules[q].name # state.rules[k].name

\* Some state up to state s repeats the name of a state before it
DuplicateStateUpTo(ctx, s) ==
    \E j \in 1..s : \E i \in 1..(j - 1) : ctx[i].name = ctx[j].name

\* A rule name is used in two different states
ReusedAcrossStates(ctx) ==
    \E s, t \in 1..Len(ctx) : s # t /\
        \E r \in 1..Len(ctx[s].rules) : \E q \in 1..Len(ctx[t].rules) :
            ctx[s].rules[r].name = ctx[t].rules[q].name

\* C12, amended: rule names are unique per state, not per program.  The
\* program is rejected with the duplicate-rule error, naming the state and
\* the repeated rule, exactly when two rules of one state share a name and no
\* earlier check fails first (no rule has an `!?` clause without a condition,
\* and no state up to and including the first state with such rules repeats
\* an earlier state's name); a rule name used again in a different state is
\* no violation: a program whose only reuse of names is across states is
\* accepted.
C12_RuleNamesPerState ==
    /\ pc # "macro" =>
          ((pc = "compile_error" /\ error.err = "Duplicate rule")
             <=> /\ HasDuplicateRule(input)
                 /\ ~HasLoneElse(input)
                 /\ ~DuplicateStateUpTo(input, FirstDuplicateRuleState(input)))
    /\ (pc = "compile_error" /\ error.err = "Duplicate rule") =>
          LET state == input[FirstDuplicateRuleState(input)]
          IN  error.at = << state.name, state.rules[FirstDuplicateRule(state)].name >>
    /\ ( /\ ReusedAcrossStates(input)
         /\ ~HasDuplicateRule(input)
         /\ ~HasDuplicateState(input)
         /\ ~HasLoneElse(input)
         /\ ~UnresolvedTarget(input) ) => pc # "compile_error"

\* The second state's rule "p" about to run in a program whose first state
\* has a rule "p" as well
C12_Witness ==
    /\ pc = "rule"
    /\ current_state = 1
    /\ ThisRule.name = "p"
    /\ input[1].rules # << >>
    /\ input[1].rules[1].name = "p"
\* Rule r of state s is written with an `!?` clause and no condition
LoneElse(ctx, s, r) ==
    is_none(ctx[s].rules[r].condition) /\ is_some(ctx[s].rules[r].else_body)

\* C13: a program in which some rule has an `!?` clause and no condition
\* never gets past the macro: it is rejected, for the first such rule in
\* declaration order, before any condition is evaluated or statement run; so
\* in every program the generated code runs, a rule that has an else-body
\* has a condition.
C13_ElseNeedsCondition ==
    /\ HasLoneElse(input) =>
          /\ pc \in {"macro", "compile_error"}
          /\ ~ran
          /\ pc = "compile_error" =>
                /\ error.err = "'!?' clause without a condition"
                /\ \E s \in 1..Len(input) : \E r \in 1..Len(input[s].rules) :
                      /\ LoneElse(input, s, r)
                      /\ error.at = << input[s].rules[r].name >>
                      /\ \A q \in 1..(r - 1) : ~LoneElse(input, s, q)
                      /\ \A t \in 1..(s - 1) : \A q \in 1..Len(input[t].rules) :
                            ~LoneElse(input, t, q)
    /\ pc \notin {"macro", "compile_error"} =>
          \A s \in 1..Len(input) : \A r \in 1..Len(input[s].rules) :
              is_some(input[s].rules[r].else_body)
                  => is_some(input[s].rules[r].condition)

\* A program rejected for a conditionless rule "q" with an `!?` clause that
\* has no other violation
C13_Witness ==
    /\ pc = "compile_error"
    /\ error = Err("'!?' clause without a condition", << "q" >>)
    /\ ~HasDuplicateRule(input)
    /\ ~HasDuplicateState(input)
    /\ ~UnresolvedTarget(input)
\* The first pass of the current entry is under way or about to begin
InFirstPass == InState /\ (pass = 0 \/ (pass = 1 /\ pc # "loop"))

\* C14: the first state entered is state 0, with __first_iteration true for
\* its first pass; a state left at its fixed point hands control to the index
\* exactly one greater, whose arm, if there is such a state, begins with
\* __first_iteration true; and as long as no transition statement has
\* executed, the states entered so far are 0, 1, .., current, each once.
C14_DeclarationOrder ==
    /\ []((InState /\ entry_by = "start") => current_state = 0)
    /\ []((InFirstPass /\ entry_by \in {"start", "fall"}) => first_iteration)
    /\ [][last' = "break" =>
             /\ pc' = "match"
             /\ current_state' = current_state + 1]_vars
    /\ [][(pc = "match" /\ last = "break" /\ pc' = "loop") =>
             /\ current_state' = current_state
             /\ entry_by' = "fall"
             /\ first_iteration']_vars
    /\ []((~jumped /\ InState) =>
             /\ visited = 0..current_state
             /\ ~revisit)
    /\ []((~jumped /\ pc = "match") => visited = 0..(current_state - 1))

\* Three states, each of which ran a rule, entered in turn with no transition
C14_Witness ==
    /\ pc = "match"
    /\ current_state = 3
    /\ ~jumped
    /\ visited = {0, 1, 2}
    /\ \A s \in 1..3 : input[s].rules # << >>
\* C15: when the last declared state is left at its fixed point, and when
\* the program has no state at all, __current_state is the number of states
\* and the match takes its default arm: the run ends with the panic "No
\* return in final state".  No step follows the panic, and control comes to
\* state 0 again only by a transition statement.
C15_NoReturnInFinalState ==
    /\ [][(pc = "pass_end" /\ ~fired /\ current_state = Len(input) - 1) =>
             /\ pc' = "match"
             /\ current_state' = Len(input)]_vars
    /\ [][(pc = "match" /\ current_state >= Len(input)) =>
             /\ pc' = "panic"
             /\ error' = Err("No return in final state", << >>)
             /\ ticks' = ticks
             /\ result' = None]_vars
    /\ [][pc # "panic"]_vars
    /\ [][(current_state' = 0 /\ current_state # 0) => last' = "jump"]_vars
    /\ [](pc = "panic" => (current_state = Len(input) /\ result = None))

\* The panic after the second of two states, both of which ran a rule, was
\* left at its fixed point
C15_Witness ==
    /\ pc = "panic"
    /\ error.err = "No return in final state"
    /\ Len(input) = 2
    /\ visited = {0, 1}
    /\ \A s \in 1..2 : input[s].rules # << >>
    /\ ticks > entry_ticks
\* The places <<state, rule, block, statement>> of the transitions that name
\* no state; block 1 is the body, block 2 the else-body
UnresolvedAt(ctx) ==
    { x \in (1..Len(ctx)) \X (1..2) \X (1..2) \X (1..2) :
        /\ x[2] <= Len(ctx[x[1]].rules)
        /\ LET blocks == << ctx[x[1]].rules[x[2]].body, ElseOf(ctx[x[1]].rules[x[2]]) >>
           IN  /\ x[4] <= Len(blocks[x[3]])
               /\ blocks[x[3]][x[4]].kind = "StateTransition"
               /\ Denoted(ctx, blocks[x[3]][x[4]].target) = {} }

TargetAt(ctx, x) ==
    << ctx[x[1]].rules[x[2]].body, ElseOf(ctx[x[1]].rules[x[2]]) >>[x[3]][x[4]].target

\* Declaration order of two places
Before(x, y) ==
    \E i \in 1..4 : x[i] < y[i] /\ \A j \in 1..(i - 1) : x[j] = y[j]

\* State s holds a structural violation
Violates(ctx, s) ==
    \/ \E i \in 1..(s - 1) : ctx[i].name = ctx[s].name
    \/ \E i, k \in 1..Len(ctx[s].rules) :
          i < k /\ ctx[s].rules[i].name = ctx[s].rules[k].name
    \/ \E r \in 1..Len(ctx[s].rules) : LoneElse(ctx, s, r)
    \/ \E x \in UnresolvedAt(ctx) : x[1] = s

\* The error is one that state s gives rise to
ReportedFor(ctx, s, e) ==
    \/ /\ e.err = "Duplicate state name"
       /\ e.at = << ctx[s].name >>
       /\ \E i \in 1..(s - 1) : ctx[i].name = ctx[s].name
    \/ /\ e.err = "Duplicate rule"
       /\ \E i, k \in 1..Len(ctx[s].rules) :
             /\ i < k
             /\ ctx[s].rules[i].name = ctx[s].rules[k].name
             /\ e.at = << ctx[s].name, ctx[s].rules[k].name >>
    \/ /\ e.err = "'!?' clause without a condition"
       /\ \E r \in 1..Len(ctx[s].rules) :
             LoneElse(ctx, s, r) /\ e.at = << ctx[s].rules[r].name >>
    \/ /\ e.err = "Invalid state transition target"
       /\ \E x \in UnresolvedAt(ctx) : x[1] = s /\ e.at = << TargetAt(ctx, x) >>

\* C16, as stated: the error reported is the first structural violation in
\* declaration order; whatever the order of the violations inside one state,
\* it is then a violation of the first state that has any.
C16_FirstInDeclarationOrder ==
    pc = "compile_error" =>
        \E s \in 1..Len(input) :
            /\ Violates(input, s)
            /\ \A t \in 1..(s - 1) : ~Violates(input, t)
            /\ ReportedFor(input, s, error)
\* The places <<state, rule>> of the rules with an `!?` clause and no condition
LoneElseAt(ctx) ==
    { x \in (1..Len(ctx)) \X (1..2) :
        x[2] <= Len(ctx[x[1]].rules) /\ LoneElse(ctx, x[1], x[2]) }

\* The first place of a non-empty set of places, in declaration order
First(places) ==
    CHOOSE x \in places : \A y \in places : y = x \/ Before(x, y)

\* What is reported for a program with a violation, phase by phase: the
\* first `!?` clause without a condition; or else the first repeated name,
\* a state's name coming before the names of its rules; or else the first
\* transition that names no state.
Reported(ctx) ==
    IF HasLoneElse(ctx)
    THEN Err("'!?' clause without a condition",
             << ctx[First(LoneElseAt(ctx))[1]].rules[First(LoneElseAt(ctx))[2]].name >>)
    ELSE IF /\ HasDuplicateState(ctx)
            /\ (HasDuplicateRule(ctx) => SecondOccurrence(ctx) <= FirstDuplicateRuleState(ctx))
    THEN Err("Duplicate state name", << ctx[SecondOccurrence(ctx)].name >>)
    ELSE IF HasDuplicateRule(ctx)
    THEN LET state == ctx[FirstDuplicateRuleState(ctx)]
         IN  Err("Duplicate rule",
                 << state.name, state.rules[FirstDuplicateRule(state)].name >>)
    ELSE Err("Invalid state transition target",
             << TargetAt(ctx, First(UnresolvedAt(ctx))) >>)

\* C16, amended: a program with a structural violation never gets past the
\* macro, a program without one does, and the error reported is the first
\* violation in the order of the macro's phases, each phase going through
\* the program in declaration order: parsing (an `!?` clause without a
\* condition), then the validation of names (a state's name, then the names
\* of its rules), then code generation (a transition target no state has).
\* A violation of a later phase is not reported before one of an earlier
\* phase, wherever in the program the two are.
C16_FirstInPhaseOrder ==
    /\ (\E s \in 1..Len(input) : Violates(input, s)) =>
          /\ pc \in {"macro", "compile_error"}
          /\ pc = "compile_error" => error = Reported(input)
    /\ pc = "compile_error" => \E s \in 1..Len(input) : Violates(input, s)

\* A program rejected for its repeated state name although a transition of
\* its first state names no state
C16_Witness ==
    /\ pc = "compile_error"
    /\ error.err = "Duplicate state name"
    /\ Len(input) = 2
    /\ \E x \in UnresolvedAt(input) : x[1] = 1
    /\ ~HasLoneElse(input)
\* An else-body was begun in the current pass
ElseRanThisPass == \E r \in 1..2 : else_runs[r] >= 1 /\ else_runs[r] = pass

\* C18: during a pass __interaction is true exactly when a body was begun in
\* that pass; beginning or running an else-body leaves it as it was.  So at
\* the end of a pass in which else-bodies ran and no body did, the loop is
\* left and control goes to the next state.
C18_ElseDoesNotFire ==
    /\ [](pc \in {"rule", "stmt", "pass_end"} => (interaction <=> fired))
    /\ [][(pc = "rule" /\ else_runs' # else_runs) =>
             /\ interaction' = interaction
             /\ fired' = fired]_vars
    /\ [][(pc = "stmt" /\ block = "else") => interaction' = interaction]_vars
    /\ [][(pc = "pass_end" /\ ElseRanThisPass /\ ~fired) =>
             /\ last' = "break"
             /\ pc' = "match"
             /\ current_state' = current_state + 1]_vars

\* A state left after a single pass in which an else-body changed ticks and
\* no body ran
C18_Witness ==
    /\ pc = "match"
    /\ last = "break"
    /\ pass = 1
    /\ body_runs = NoRuns
    /\ \E r \in 1..2 : else_runs[r] = 1
    /\ ticks > entry_ticks

\* What a condition says of the environment as it is now
TrueNow(condition) ==
    \/ condition = CondLt /\ ticks < limit
    \/ condition = CondLt3 /\ ticks < 3
    \/ condition = CondLt6 /\ ticks < 6
    \/ condition = CondLt10 /\ ticks < 10
    \/ condition = CondReset /\ ticks = 10 /\ loop_count < 2

\* C19: in a pass control comes to the rules one after the other in
\* declaration order, from the first, and to none a second time; and a
\* conditioned rule runs its body exactly when its condition is true of the
\* environment as it is when control is at the rule, with what the earlier
\* rules of the pass did to it, and its else-body, if it has one, exactly
\* when the condition is false of that environment.
C19_RulesInOrder ==
    /\ [][(pc' = "rule" /\ (pc # "rule" \/ rule' # rule)) =>
             \/ pc = "loop" /\ rule' = 1
             \/ pc \in {"rule", "stmt"} /\ rule' = rule + 1]_vars
    /\ [][(pc \in {"rule", "stmt"} /\ pc' \in {"rule", "stmt"}) => rule' >= rule]_vars
    /\ [][(pc = "rule" /\ is_some(ThisRule.condition)) =>
             LET true == TrueNow(ThisRule.condition)
             IN  /\ body_runs'[rule] # body_runs[rule] <=> true
                 /\ else_runs'[rule] # else_runs[rule]
                       <=> (~true /\ is_some(ThisRule.else_body))]_vars

\* The else-body of a second rule begun because the first rule of the pass
\* made its condition false, which was true when the pass began
C19_Witness ==
    /\ pc = "stmt"
    /\ last = "eval"
    /\ rule = 2
    /\ block = "else"
    /\ ThisRule.condition = CondLt
    /\ pass_ticks < limit
    /\ ticks >= limit
\* The stream begins `name ?`
StartsRule == Len(tokens) >= 2 /\ tokens[1] = "id" /\ tokens[2] = "?"

\* The place of the first brace group after `name ?`, 0 when there is none
FirstBrace ==
    LET braces == { k \in 3..Len(tokens) : tokens[k] = "{}" }
    IN  IF braces = {} THEN 0 ELSE CHOOSE k \in braces : \A j \in braces : k <= j

\* The token trees between `?` and the first brace group
BeforeFirstBrace == SubSeq(tokens, 3, FirstBrace - 1)

\* C20: cond_tokens never holds a brace group; once Rule::parse is past the
\* condition, the condition is None when the first brace group follows `?`
\* at once and is otherwise the expression made of exactly the token trees
\* between `?` and the first brace group, and the block taken as the body is
\* that first brace group; and a stream that begins `name ?` and holds no
\* brace group after it ends in the error of the unexpected end of input,
\* with no body taken.
C20_ConditionBeforeFirstBrace ==
    /\ \A i \in 1..Len(cond_tokens) : cond_tokens[i] # "{}"
    /\ step \in {"body", "else", "else_question", "else_body", "check", "Ok"} =>
          /\ FirstBrace # 0
          /\ parsed.condition = IF FirstBrace = 3 THEN None
                                ELSE Some(BeforeFirstBrace)
          /\ IF step = "body" THEN cursor = FirstBrace
             ELSE parsed.body = FirstBrace
    /\ (step = "Err" /\ parsed.body # 0) => parsed.body = FirstBrace
    /\ (StartsRule /\ FirstBrace = 0) =>
          /\ step \in {"name", "question", "condition", "cond_tokens", "Err"}
          /\ parsed.body = 0
          /\ step = "Err" =>
                parsed.err = "Unexpected end of input, expected rule body '{'"

\* `name ? id < id { } { }` parsed: the condition is `id < id`, the body the
\* first of the two brace groups
C20_Witness ==
    /\ step = "Ok"
    /\ tokens = << "id", "?", "id", "<", "id", "{}", "{}" >>
    /\ parsed.condition = Some(<< "id", "<", "id" >>)
    /\ parsed.body = 6
    /\ cursor = 7
\* C17: when two invocations run with their steps interleaved in any way,
\* each on its own environment, a step of the running invocation changes
\* its locals exactly as the same step does when an invocation runs by
\* itself and leaves the other invocation's locals alone, and a switch
\* leaves both invocations their __current_state, __first_iteration,
\* __interaction, environment and place in the code; so an invocation that
\* has ended has ended as it does by itself, with the same result.
C17_IndependentInvocations ==
    /\ [][(phase = "together" /\ phase' = "together") =>
             \/ other' = other /\ << Locals, Locals' >> \in alone
             \/ other' = Locals /\ Locals' = other]_vars
    /\ []((phase = "together" /\ Ended) =>
             \E e \in alone : e[2] = Locals)
    /\ []((phase = "together" /\ other.pc \in {"returned", "panic"}) =>
             \E e \in alone : e[2] = other)

\* Both invocations at the end of a pass, in different states, one on its
\* first pass with a rule fired and the other on a later pass with none
C17_Witness ==
    /\ phase = "together"
    /\ pc = "pass_end"
    /\ other.pc = "pass_end"
    /\ current_state # other.current_state
    /\ interaction /\ ~other.interaction
    /\ first_iteration /\ ~other.first_iteration
    /\ ticks # other.ticks

----------------------------------------------------------------------------
(* A state with a conditionless rule performs two passes *)

HasConditionless(rs) == \E r \in 1..Len(rs) : Conditionless(rs[r])

\* The step ends the entry of the running state: by the break of its loop, by
\* a return or by a transition
LeavesState == InState /\ pc' \in {"match", "returned"}

\* The else-body of rule r belongs to a condition that is never true
NeverTrueElse(r) == Rules[r].condition = CondFalse /\ is_some(Rules[r].else_body)

\* No condition of the running state has held since the state was entered
NoConditionHeld ==
    \A r \in 1..Len(Rules) : ~Conditionless(Rules[r]) => body_runs[r] = 0

\* C21, as stated: when an entry of a state with a conditionless rule ends
\* after its first pass completed, every conditioned rule of the state was
\* evaluated at least twice in the entry and every else-body of a never-true
\* condition ran at least twice.
C21_EveryConditionTwice ==
    [][ (LeavesState /\ HasConditionless(Rules) /\ pass >= 2) =>
            \A r \in 1..Len(Rules) :
                ~Conditionless(Rules[r]) =>
                    /\ PassesReached(r) >= 2
                    /\ NeverTrueElse(r) => else_runs[r] >= 2 ]_vars

\* C21: in a state with a conditionless rule the first pass, when it
\* completes, has set __interaction, so the loop does not break and a second
\* pass begins.  When the entry ends, every conditioned rule was evaluated at
\* least twice and every else-body of a never-true condition ran at least
\* twice, except the rules that follow the rule whose return or transition
\* ended the entry in the second pass: those were evaluated once.  While no
\* condition has held, the state performs no third pass, so such an entry
\* ends by the break of the second pass with every else-body run twice.
C21_TwoPasses ==
    [][ /\ (pc = "pass_end" /\ pass = 1 /\ HasConditionless(Rules)) =>
               interaction /\ pc' = "loop"
        /\ (LeavesState /\ HasConditionless(Rules) /\ pass >= 2) =>
            \A r \in 1..Len(Rules) :
                ~Conditionless(Rules[r]) =>
                    /\ \/ PassesReached(r) >= 2
                       \/ pass = 2 /\ pc = "stmt" /\ rule < r /\ PassesReached(r) = 1
                    /\ NeverTrueElse(r) => else_runs[r] = PassesReached(r)
        /\ (InState /\ HasConditionless(Rules) /\ NoConditionHeld) =>
            /\ pass <= 2
            /\ (LeavesState /\ pass = 2) =>
                  /\ pc = "pass_end"
                  /\ \A r \in 1..Len(Rules) :
                        is_some(Rules[r].else_body) => else_runs[r] = 2 ]_vars

\* The second pass of a state with a conditionless rule is at its end with no
\* interaction, the else-body of a never-true condition having run twice
C21_Witness ==
    /\ pc = "pass_end"
    /\ pass = 2
    /\ ~interaction
    /\ HasConditionless(Rules)
    /\ NoConditionHeld
    /\ \E r \in 1..Len(Rules) : NeverTrueElse(r) /\ else_runs[r] = 2

----------------------------------------------------------------------------
(* The documented traffic light *)

\* C22: the documented traffic-light program, run with loop_count = 0 (and
\* ticks = 0; red's announce sets ticks to 0 whatever it held), builds and
\* never panics, never enters a state a second time and never executes a
\* transition; when it has returned, it returned from the else-branch of
\* reset in yellow's first pass, with ticks = 7 and loop_count = 1, reset's
\* body never begun, and red, green and yellow each entered.
C22_TrafficLight ==
    input = TrafficLight =>
        /\ pc \notin {"compile_error", "panic"}
        /\ ~revisit
        /\ ~jumped
        /\ pc = "returned" =>
              /\ ticks = 7
              /\ loop_count = 1
              /\ visited = {0, 1, 2}
              /\ Running.name = "yellow"
              /\ pass = 1
              /\ ThisRule.name = "reset"
              /\ block = "else"
              /\ body_runs[rule] = 0
              /\ result = Some("()")

\* The traffic light has returned from reset's else-branch
C22_Witness ==
    /\ input = TrafficLight
    /\ pc = "returned"
    /\ ThisRule.name = "reset"
    /\ block = "else"
    /\ ticks = 7
    /\ loop_count = 1

----------------------------------------------------------------------------
(* C23: the dependents of an invoked source *)

\* The dependent the for loop of invoke is at, and its condition by what
\* the condition says on the cache as it is now
ThisDependent == get(global_table, sig_deps[sig_dep])
ConditionTrue ==
    /\ ThisDependent.type = "Sigil"
    /\ eval_boolean_with_context(ThisDependent.cond_expr, src_cache) = "true"

\* The invocation of a source is over: the loop over its dependents was left
SourceInvoked == ipc \in {"invoke", "exit", "panic"} /\ sig_deps # << >>

\* C23: invoking a source evaluates every dependent sigil of the source, in
\* the order of registration: while the loop runs the dependents evaluated
\* are the first sig_dep - 1 registered, once it is left they are all of
\* them (one that is false or fails to evaluate does not stop the rest); and
\* the body of a dependent runs, with its name put on runtime_chain, exactly
\* when its condition is true at the moment the loop reaches it.
C23_EveryDependent ==
    /\ [](ipc = "deps" => evaluated = SubSeq(sig_deps, 1, sig_dep - 1))
    /\ [](SourceInvoked => evaluated = sig_deps)
    /\ [][ipc = "deps" /\ sig_dep' = sig_dep + 1 =>
            IF ConditionTrue
            THEN runtime_chain' = Append(runtime_chain, ThisDependent.name)
            ELSE UNCHANGED << runtime_chain, src_cache, invoke_queue >>]_vars

\* A dependent whose condition ends in a source stopped the interpreter with
\* a registered dependent behind it that was never evaluated
C23_Witness ==
    /\ ipc = "panic"
    /\ Len(sig_deps) = 2
    /\ evaluated = << sig_deps[1] >>
    /\ get(global_table, sig_deps[1]).cond_expr = << "\"on\"", "==", "x" >>

----------------------------------------------------------------------------
(* C24: the built-ins *)

\* C24: a program cannot override a built-in: whatever lines were parsed,
\* global_table maps Whisper and Pulse to the built-in sigils that
\* Interpreter::new put there.
C24_BuiltInsKept ==
    \A name \in BuiltIns :
        /\ get(global_table, name).type = "BuiltInSigil"
        /\ get(global_table, name).name = name

\* The interpreter went through a program to its end and a sigil of the
\* program is what global_table has under the name of a built-in
C24_Witness ==
    /\ build = "main.rs"
    /\ ipc = "exit"
    /\ \E name \in BuiltIns : get(global_table, name).type = "Sigil"

----------------------------------------------------------------------------
(* C25: the invoke queue *)

\* s is t with elements left out
RECURSIVE IsSubsequence(_, _)
IsSubsequence(s, t) ==
    IF s = << >> THEN TRUE
    ELSE IF t = << >> THEN FALSE
    ELSE IF Head(s) = Head(t) THEN IsSubsequence(Tail(s), Tail(t))
    ELSE IsSubsequence(s, Tail(t))

\* C25: the invoke loop is first in, first out.  The targets taken from the
\* queue so far, followed by the targets still in it, are the targets that
\* were ever queued, in the order they were queued: a target queued by a body
\* stands behind the ones already pending, and every queued target is taken
\* exactly once.  runtime_chain has every target taken, in the order taken.
C25_Fifo ==
    /\ dequeued \o invoke_queue = queued
    /\ IsSubsequence(dequeued, runtime_chain)

\* The loop is running and B, which was queued, is neither taken nor pending
C25_Witness ==
    /\ ipc = "invoke"
    /\ \E k \in 1..Len(queued) : queued[k] = "B"
    /\ \A k \in 1..Len(dequeued) : dequeued[k] # "B"
    /\ \A k \in 1..Len(invoke_queue) : invoke_queue[k] # "B"

----------------------------------------------------------------------------
(* C26: Pulse *)

\* The sigil whose body queued Pulse last, and its condition by what the
\* condition says on the cache as it is now
PulseOwner ==
    LET builtin == get(global_table, "Pulse")
    IN  IF builtin.type = "BuiltInSigil" /\ is_some(builtin.in_sigil)
        THEN get(global_table, unwrap(builtin.in_sigil)) ELSE NoObject
OwnerConditionTrue ==
    /\ PulseOwner.type = "Sigil"
    /\ eval_boolean_with_context(PulseOwner.cond_expr, src_cache) = "true"

\* C26: when Pulse is taken from the queue and the condition of its owner is
\* true, the owner is scheduled to run next and nothing pending is
\* discarded: the queue after the step is the owner followed by the targets
\* that were pending behind Pulse.  That is so for every queue, the empty one
\* included, and the interpreter goes on.
C26_PulseSchedulesOwner ==
    [][Pending /\ target = "Pulse" /\ node.type = "BuiltInSigil"
         /\ OwnerConditionTrue =>
            /\ invoke_queue' = << PulseOwner.name >> \o Tail(invoke_queue)
            /\ ipc' = "invoke"]_vars

\* Pulse was the last target in the queue, its owner's condition was true,
\* and the interpreter stopped on the write to the front of an empty queue
C26_Witness ==
    /\ ipc = "panic"
    /\ runtime_chain # << >>
    /\ runtime_chain[Len(runtime_chain)] = "Pulse"
    /\ invoke_queue = << >>
    /\ PulseOwner.type = "Sigil"
    /\ eval_expr(PulseOwner.cond_expr, src_cache) = "true"

----------------------------------------------------------------------------
(* C27: the lines of a program *)

\* Line k (counted from 0) is a statement of the top level: it has text and
\* does not start with whitespace
TopLevel(k) == is_line(lines[k + 1]) /\ ~lines[k + 1].indent

\* The lines the loop of parse has gone past
Passed == { k \in 0..(Len(lines) - 1) : k < li }

\* C27: the parser dispatches on its keyword every top-level line that is
\* not empty, exactly once and in the order of the program, and no other
\* line: an indented line after a header is taken as body only, and the
\* top-level statement that stands immediately after a body is dispatched
\* like any other.
C27_EveryLineOnce ==
    /\ \A j \in 1..Len(dispatched) : TopLevel(dispatched[j])
    /\ \A j \in 1..(Len(dispatched) - 1) : dispatched[j] < dispatched[j + 1]
    /\ \A k \in Passed : TopLevel(k) => \E j \in 1..Len(dispatched) : dispatched[j] = k

\* The parser is through the program, and the statement that followed a body
\* immediately was never dispatched
C27_Witness ==
    /\ ipc \in {"invoke", "parsed"}
    /\ \E k \in 1..(Len(lines) - 1) :
          /\ lines[k].indent
          /\ TopLevel(k)
          /\ \A j \in 1..Len(dispatched) : dispatched[j] # k

====
